---------------------------- MODULE Spec2Model ----------------------------
(***************************************************************************)
(* Model of the computational core of Comtrac-tuner (src/src/App.jsx and   *)
(* the FieldPortalDashboard component): the RIH/tractor/POOH stitcher of   *)
(* SimulationBuilder, the pressure adjustment of the field portal and the  *)
(* minimum-curvature trajectory solver.                                    *)
(*                                                                         *)
(* Numbers.  JavaScript numbers are modelled by integers:                  *)
(*   - depths (md) of simulation files are in quarter depth units, so the  *)
(*     proximity tolerance 0.5 of the source is Tol = 2;                   *)
(*   - forces (rih, pooh) are in grams, so that the weight offset in kg is *)
(*     an integer;                                                         *)
(*   - null, NaN, Infinity and -Infinity are the sentinels Null, NaN,      *)
(*     PosInf and NegInf, which lie outside every value the model uses;    *)
(*     every comparison that JavaScript answers specially for NaN goes     *)
(*     through Truthy or Gt.                                               *)
(* Array indices are 1-based here and 0-based in the source: the source's  *)
(* "no index" -1 is 0 here.                                                *)
(***************************************************************************)
EXTENDS Integers, Sequences, FiniteSets, TLC

VARIABLES
    files,              \* SimulationBuilder state: [rih, tractor, pooh], each a file slot
    tractorDepth,       \* SimulationBuilder state: force-on depth input
    stopTractorDepth,   \* SimulationBuilder state: force-off depth input
    chartData,          \* SimulationBuilder state: the chart series
    isStitched,         \* SimulationBuilder state: the stitched flag
    mounted,            \* whether the component's first effect has run
    pending,            \* file reads in flight: the onload callbacks not yet run
    forceDepth,         \* handleStitch's local forceDepth at the last stitch
    stopDepth,          \* handleStitch's local stopDepth at the last stitch
    simulations,        \* RunBuilder: runData.simulations, what onUpdate was last given
    run,                \* FieldPortal: the run document (simulations.chartData, rod, fluids)
    pressureAdj,        \* FieldPortal: the pressureAdjustment state
    portalChart,        \* FieldPortal: the chartData memo
    dashChart,          \* FieldPortalDashboard: the chartData memo
    auth,               \* whether auth.currentUser is a signed-in user
    wellDoc,            \* Firestore: the run inside the jobs array of the well document
    saves,              \* the calls of savePickupWeights and savePressureAdjustment, in call order
    pickupWeights,      \* FieldPortal: the pickupWeights state
    surveyPoints,       \* calculateTrajectory's argument
    trajectory,         \* calculateTrajectory's result
    args,               \* the arguments of the pure function under examination
    result,             \* what that function returned
    sections,           \* StepArchitectureImport state: the casing sections
    units,              \* StepArchitectureImport state: the unit of each column
    maxDepth,           \* StepArchitectureImport prop: the deepest survey md
    saved,              \* the sections handed to onFinish, or Null before the save
    pc                  \* which operation acted last

vars == <<files, tractorDepth, stopTractorDepth, chartData, isStitched, mounted,
          pending, forceDepth, stopDepth, simulations, run, pressureAdj, portalChart,
          dashChart, auth, wellDoc, saves, pickupWeights, surveyPoints, trajectory,
          args, result, sections, units, maxDepth, saved, pc>>

builderVars == <<files, tractorDepth, stopTractorDepth, chartData, isStitched,
                 mounted, pending, forceDepth, stopDepth, simulations>>
storeVars == <<auth, wellDoc, saves, pickupWeights>>
portalVars == <<run, pressureAdj, portalChart, dashChart, storeVars>>
trajVars == <<surveyPoints, trajectory>>
callVars == <<args, result>>
editorVars == <<sections, units, maxDepth, saved>>

---------------------------------------------------------------------------
(* JavaScript values *)

Null == 0 - 900000
NaN == 800000
PosInf == 999999
NegInf == 0 - 999999

\* Math.abs(p.md - md) < 0.5, in quarter depth units
Tol == 2

\* x || y  and  if (x): a number is falsy when it is 0 or NaN
Truthy(x) == x # NaN /\ x # 0

\* a > b: false when either side is NaN
Gt(a, b) == a # NaN /\ b # NaN /\ a > b

Abs(x) == IF x < 0 THEN 0 - x ELSE x

\* a file slot of the files state: null, or the parsed array (an empty array is
\* an object and so truthy)
NoFile == [loaded |-> FALSE, data |-> <<>>]
Loaded(d) == [loaded |-> TRUE, data |-> d]

\* Math.max(...arr.map(p => p.md)); Math.max() of nothing is -Infinity
RECURSIVE MaxMd(_)
MaxMd(data) ==
    IF data = <<>> THEN NegInf
    ELSE LET m == MaxMd(Tail(data))
         IN IF Head(data).md > m THEN Head(data).md ELSE m

\* a bug of the tolerance: a sample exactly 0.5 away still matches
FindNearInclusive(data, md) ==
    LET hits == {i \in 1..Len(data) : Abs(data[i].md - md) <= Tol}
    IN IF hits = {} THEN 0 ELSE CHOOSE i \in hits : \A j \in hits : i <= j

\* arr.find(p => Math.abs(p.md - md) < 0.5): the index of the first sample
\* within the tolerance, 0 when there is none (undefined)
FindNear(data, md) ==
    LET hits == {i \in 1..Len(data) : Abs(data[i].md - md) < Tol}
    IN IF hits = {} THEN 0 ELSE CHOOSE i \in hits : \A j \in hits : i <= j

\* [...set].sort((a, b) => a - b)
RECURSIVE SortedSeq(_)
SortedSeq(S) ==
    IF S = {} THEN <<>>
    ELSE LET m == CHOOSE x \in S : \A y \in S : x <= y
         IN <<m>> \o SortedSeq(S \ {m})

MdSet(data) == {data[i].md : i \in 1..Len(data)}

---------------------------------------------------------------------------
(* SimulationBuilder.handleStitch *)

\* a bug of the default: the md of the first sample instead of the greatest
ForceDepthOfFirst(f, td) ==
    IF Truthy(td) THEN td
    ELSE IF f.rih.data = <<>> THEN NegInf ELSE f.rih.data[1].md

\* const forceDepth = tractorDepth || Math.max(...files.rih.map(p => p.md))
ForceDepthOf(f, td) ==
    IF Truthy(td) THEN td ELSE MaxMd(f.rih.data)

\* a bug of the stop depth: the input is never used
StopDepthOfIgnored(std, fd) == PosInf

\* const stopDepth = stopTractorDepth > forceDepth ? stopTractorDepth : Infinity
StopDepthOf(std, fd) ==
    IF Gt(std, fd) THEN std ELSE PosInf

\* a bug of the priority order: the tractor file is asked before the override file
PoohSourceTractorFirst(f) ==
    IF f.tractor.loaded THEN "tractor"
    ELSE IF f.pooh.loaded THEN "override"
    ELSE "rih"

\* let poohSource = 'rih'; if (files.pooh) ... else if (files.tractor) ...
PoohSource(f) ==
    IF f.pooh.loaded THEN "override"
    ELSE IF f.tractor.loaded THEN "tractor"
    ELSE "rih"

\* a bug of the union: the md values of the POOH override file are left out
AllMDsNoPooh(f) ==
    SortedSeq(MdSet(f.rih.data) \cup MdSet(f.tractor.data))

\* the sorted, exactly-deduplicated union of the md values of the files
AllMDs(f) ==
    SortedSeq(MdSet(f.rih.data) \cup MdSet(f.tractor.data)
              \cup (IF f.pooh.loaded THEN MdSet(f.pooh.data) ELSE {}))

\* a bug of the phase test: the point at forceDepth itself still counts as Phase 1
PhaseInclusive(md, fd, sd) ==
    IF md <= fd THEN 1
    ELSE IF md < sd THEN 2
    ELSE 3

\* if (md < forceDepth) ... else if (md >= forceDepth && md < stopDepth) ... else ...
Phase(md, fd, sd) ==
    IF md < fd THEN 1
    ELSE IF md >= fd /\ md < sd THEN 2
    ELSE 3

\* the RIH part of one iteration of allMDs.forEach: the point's three RIH
\* fields and the updated trackers
RihFields(f, md, index, fd, sd, acc) ==
    LET offI == FindNear(f.rih.data, md)
        onI == FindNear(f.tractor.data, md)
        ph == Phase(md, fd, sd)
        none == [s1 |-> Null, tr |-> Null, s2 |-> Null,
                 v1 |-> acc.lastRihStandard1Value, i1 |-> acc.lastRihStandard1Index,
                 vt |-> acc.lastRihTractorValue, it |-> acc.lastRihTractorIndex]
    IN IF ph = 1
       THEN IF offI # 0
            THEN [none EXCEPT !.s1 = f.rih.data[offI].rih,
                              !.v1 = f.rih.data[offI].rih, !.i1 = index]
            ELSE none
       ELSE IF ph = 2
       THEN IF onI # 0
            THEN [none EXCEPT !.tr = f.tractor.data[onI].rih,
                              !.vt = f.tractor.data[onI].rih, !.it = index]
            ELSE none
       ELSE IF offI # 0
            THEN [none EXCEPT !.s2 = f.rih.data[offI].rih]
            ELSE IF acc.lastRihStandard1Value # Null
            THEN [none EXCEPT !.s2 = acc.lastRihStandard1Value]
            ELSE none

\* the POOH part of one iteration: independent of the RIH logic
PoohField(f, md) ==
    LET offI == FindNear(f.rih.data, md)
        onI == FindNear(f.tractor.data, md)
        src == PoohSource(f)
    IN IF src = "override"
       THEN LET pI == FindNear(f.pooh.data, md)
            IN IF pI # 0 THEN f.pooh.data[pI].pooh ELSE Null
       ELSE IF src = "tractor"
       THEN IF onI # 0 THEN f.tractor.data[onI].pooh ELSE Null
       ELSE IF offI # 0 THEN f.rih.data[offI].pooh ELSE Null

\* a bug of the POOH logic: the pooh is filled in only up to the stop depth
RECURSIVE StitchLoopPoohInPhase(_, _, _, _, _, _)
StitchLoopPoohInPhase(f, mds, index, fd, sd, acc) ==
    IF index > Len(mds) THEN acc
    ELSE LET md == mds[index]
             r == RihFields(f, md, index, fd, sd, acc)
             dataPoint == [md |-> md, rih_standard_1 |-> r.s1, rih_standard_2 |-> r.s2,
                           rih_tractor |-> r.tr,
                           pooh |-> IF md < sd THEN PoohField(f, md) ELSE Null]
         IN StitchLoopPoohInPhase(f, mds, index + 1, fd, sd,
                [merged |-> Append(acc.merged, dataPoint),
                 lastRihStandard1Value |-> r.v1, lastRihStandard1Index |-> r.i1,
                 lastRihTractorValue |-> r.vt, lastRihTractorIndex |-> r.it])

\* allMDs.forEach((md, index) => { ... merged.push(dataPoint) })
RECURSIVE StitchLoop(_, _, _, _, _, _)
StitchLoop(f, mds, index, fd, sd, acc) ==
    IF index > Len(mds) THEN acc
    ELSE LET md == mds[index]
             r == RihFields(f, md, index, fd, sd, acc)
             dataPoint == [md |-> md, rih_standard_1 |-> r.s1, rih_standard_2 |-> r.s2,
                           rih_tractor |-> r.tr, pooh |-> PoohField(f, md)]
         IN StitchLoop(f, mds, index + 1, fd, sd,
                [merged |-> Append(acc.merged, dataPoint),
                 lastRihStandard1Value |-> r.v1, lastRihStandard1Index |-> r.i1,
                 lastRihTractorValue |-> r.vt, lastRihTractorIndex |-> r.it])

\* a bug of the first connector: the value goes to rih_standard_2
Connect1WrongField(acc, sd) ==
    LET i == acc.lastRihStandard1Index
        m == acc.merged
    IN IF i # 0 /\ i <= Len(m) /\ m[i].md < sd /\ m[i].rih_tractor = Null
       THEN [acc EXCEPT !.merged[i].rih_standard_2 = acc.lastRihStandard1Value]
       ELSE acc

\* CONNECT THE LINES 1: Standard 1 -> Tractor
Connect1(acc, sd) ==
    LET i == acc.lastRihStandard1Index
        m == acc.merged
    IN IF i # 0 /\ i <= Len(m) /\ m[i].md < sd /\ m[i].rih_tractor = Null
       THEN [acc EXCEPT !.merged[i].rih_tractor = acc.lastRihStandard1Value]
       ELSE acc

\* CONNECT THE LINES 2: Tractor -> Standard 2
Connect2(acc) ==
    LET i == acc.lastRihTractorIndex
        m == acc.merged
    IN IF i # 0 /\ i <= Len(m)
          /\ i + 1 <= Len(m)
          /\ (m[i + 1].rih_standard_2 # Null \/ m[i].rih_standard_2 # Null)
          /\ m[i].rih_standard_2 = Null
       THEN [acc EXCEPT !.merged[i].rih_standard_2 = acc.lastRihTractorValue]
       ELSE acc

\* the merged array handleStitch hands to setChartData and onUpdate
Stitch(f, td, std) ==
    LET fd == ForceDepthOf(f, td)
        sd == StopDepthOf(std, fd)
        start == [merged |-> <<>>,
                  lastRihStandard1Value |-> Null, lastRihStandard1Index |-> 0,
                  lastRihTractorValue |-> Null, lastRihTractorIndex |-> 0]
    IN Connect2(Connect1(StitchLoop(f, AllMDs(f), 1, fd, sd, start), sd)).merged

---------------------------------------------------------------------------
(* SimulationBuilder: the auto-display effect *)

\* "Simple display of RIH file only", with the POOH override when present
AutoDisplay(f) ==
    [i \in 1..Len(f.rih.data) |->
        LET p == f.rih.data[i]
            pI == IF f.pooh.loaded THEN FindNear(f.pooh.data, p.md) ELSE 0
        IN [md |-> p.md, rih_standard_1 |-> p.rih, rih_standard_2 |-> Null,
            rih_tractor |-> Null,
            pooh |-> IF f.pooh.loaded
                     THEN (IF pI # 0 THEN f.pooh.data[pI].pooh ELSE Null)
                     ELSE p.pooh]]

\* a bug of the effect's dependency list: without isStitched in it the effect
\* does not run again when the stitched flag is reset, and a chart stays
EffectResultNoStitchDep(f, stitched, cd) ==
    IF ~f.rih.loaded THEN <<>>
    ELSE IF stitched \/ cd # <<>> THEN cd
    ELSE AutoDisplay(f)

\* useEffect(..., [files.rih, files.pooh, isStitched]): the chart series after the
\* effect has run on state (f, stitched) with the series cd the handler left
EffectResult(f, stitched, cd) ==
    IF ~f.rih.loaded THEN <<>>
    ELSE IF stitched THEN cd
    ELSE AutoDisplay(f)

---------------------------------------------------------------------------
(* Bounds and input sets of the stitcher *)

\* the longest simulation file drawn
MaxLen == 2
\* the most file reads in flight at once
MaxPending == 2

Sample(md, rih, pooh) == [md |-> md, rih |-> rih, pooh |-> pooh]

\* samples of the tractor-off file: two 0.25 apart, two with the same md, some
\* without a reading
RihSamples ==
    { Sample(0, 100, 150), Sample(1, 101, Null), Sample(4, Null, 154),
      Sample(4, 114, 164), Sample(5, 105, 155), Sample(8, 108, 158) }

\* samples of the tractor-on file, sampled independently of the tractor-off file
TractorSamples ==
    { Sample(3, 203, 253), Sample(4, 204, Null), Sample(6, Null, 256),
      Sample(9, 209, 259), Sample(10, 210, 260) }

\* samples of the POOH override file
PoohSamples ==
    { Sample(2, Null, 352), Sample(8, Null, Null) }

\* parseSimulationCSV returns its samples sorted by md (a stable sort: samples
\* of equal md keep their file order, so both orders occur)
SortedFiles(S, n) ==
    { d \in UNION { [1..k -> S] : k \in 0..n } :
        \A i, j \in 1..Len(d) : i < j => (d[i].md <= d[j].md /\ d[i] # d[j]) }

Slots(S, n) == { Loaded(d) : d \in SortedFiles(S, n) } \cup {NoFile}

\* values of the depth inputs: parseFloat of the input's text, NaN when it is empty
TractorDepths == {NaN, 0, 0 - 2, 2, 4, 6}
StopTractorDepths == {NaN, 0, 3, 5, 9}

\* the portal and trajectory state while the builder is the component at work
\* run.pressureAdjustment when the run has none (undefined)
NoAdj == [present |-> FALSE, enabled |-> FALSE, adjustedWHP |-> 0]
NoRun == [chartData |-> NoFile, rodDiameter |-> 0, whp |-> 0, pressureAdjustment |-> NoAdj]

\* the simulations object of a new run
NewSimulations ==
    [fileStandard |-> NoFile, fileTractor |-> NoFile, filePooh |-> NoFile,
     tractorDepth |-> 0, stopTractorDepth |-> Null, chartData |-> NoFile]

\* { ...simulations, fileStandard: f.rih, fileTractor: f.tractor, filePooh: f.pooh }
WithFiles(sims, f) ==
    [sims EXCEPT !.fileStandard = f.rih, !.fileTractor = f.tractor, !.filePooh = f.pooh]

\* the simulations object of a run that holds the files f and the depths
Persisted(f, td, std) ==
    WithFiles([NewSimulations EXCEPT !.tractorDepth = td, !.stopTractorDepth = std], f)

\* nobody is signed in and no save was called
NoStore ==
    /\ auth = FALSE
    /\ wellDoc = [pickupWeights |-> <<>>, pressureAdjustment |-> NoAdj]
    /\ saves = <<>>
    /\ pickupWeights = <<>>

\* no pure function is under examination and no casing editor is open
NoCall == args = <<>> /\ result = <<>>
NoEditor == sections = <<>> /\ units = <<>> /\ maxDepth = 0 /\ saved = <<>>

BuilderOnly ==
    /\ run = NoRun /\ pressureAdj = NoAdj /\ portalChart = <<>> /\ dashChart = <<>>
    /\ NoStore
    /\ surveyPoints = <<>> /\ trajectory = <<>>
    /\ NoCall /\ NoEditor

---------------------------------------------------------------------------
(* SimulationBuilder: state and handlers *)

\* useState(...) of a new run: no files, both depths 0, an empty chart
Init ==
    /\ files = [rih |-> NoFile, tractor |-> NoFile, pooh |-> NoFile]
    /\ tractorDepth = 0
    /\ stopTractorDepth = 0
    /\ chartData = <<>>
    /\ isStitched = FALSE
    /\ mounted = FALSE
    /\ pending = {}
    /\ forceDepth = NaN
    /\ stopDepth = NaN
    /\ simulations = NewSimulations
    /\ pc = "init"
    /\ BuilderOnly

\* useState(...) of a run whose simulations object holds files and depths
InitStitch ==
    /\ files \in [rih : Slots(RihSamples, MaxLen),
                  tractor : Slots(TractorSamples, MaxLen),
                  pooh : Slots(PoohSamples, MaxLen)]
    /\ tractorDepth \in TractorDepths
    /\ stopTractorDepth \in StopTractorDepths
    /\ chartData = <<>>
    /\ isStitched = FALSE
    /\ mounted = FALSE
    /\ pending = {}
    /\ forceDepth = NaN
    /\ stopDepth = NaN
    /\ simulations = Persisted(files, tractorDepth, stopTractorDepth)
    /\ pc = "init"
    /\ BuilderOnly

\* the first run of the auto-display effect, after the first render
Mount ==
    /\ ~mounted
    /\ mounted' = TRUE
    /\ chartData' = EffectResult(files, isStitched, chartData)
    /\ pc' = "mount"
    /\ UNCHANGED <<files, tractorDepth, stopTractorDepth, isStitched, pending,
                   forceDepth, stopDepth, simulations, portalVars, trajVars,
                   callVars, editorVars>>

\* handleFileUpload(key, null): the slot is cleared
RemoveFile(key) ==
    /\ mounted
    /\ files[key].loaded
    /\ LET newFiles == [files EXCEPT ![key] = NoFile]
       IN /\ files' = newFiles
          /\ isStitched' = FALSE
          /\ chartData' = EffectResult(newFiles, FALSE, chartData)
          /\ simulations' = WithFiles(simulations, newFiles)
    /\ pc' = "remove"
    /\ UNCHANGED <<tractorDepth, stopTractorDepth, mounted, pending,
                   forceDepth, stopDepth, portalVars, trajVars, callVars, editorVars>>

\* the files a user uploads in the interactive model, one per slot
UploadChoices(key) ==
    IF key = "rih" THEN {<<Sample(0, 100, 150), Sample(5, 105, 155)>>}
    ELSE IF key = "tractor" THEN {<<Sample(4, 204, Null), Sample(9, 209, 259)>>}
    ELSE {<<Sample(8, Null, 358)>>}

\* handleFileUpload(key, file): reader.readAsText(file) is started; the onload
\* callback closes over files, runData and the depths of this render
StartUpload(key) ==
    /\ mounted
    /\ Cardinality(pending) < MaxPending
    /\ \E parsed \in UploadChoices(key) :
          pending' = pending \cup {[key |-> key, parsed |-> parsed, files |-> files,
                                    simulations |-> simulations,
                                    tractorDepth |-> tractorDepth,
                                    stopTractorDepth |-> stopTractorDepth]}
    /\ pc' = "upload"
    /\ UNCHANGED <<files, tractorDepth, stopTractorDepth, chartData, isStitched,
                   mounted, forceDepth, stopDepth, simulations, portalVars, trajVars,
                   callVars, editorVars>>

\* the position after the onload callback of the read started for slot key
OnLoadOf(key) ==
    IF key = "rih" THEN "onload rih"
    ELSE IF key = "tractor" THEN "onload tractor"
    ELSE "onload pooh"

\* reader.onload: newFiles = { ...files, [key]: parsed } over the closed-over
\* files, and onUpdate over the closed-over runData and depths
OnLoad ==
    \E r \in pending :
        /\ LET newFiles == [r.files EXCEPT ![r.key] = Loaded(r.parsed)]
           IN /\ files' = newFiles
              /\ isStitched' = FALSE
              /\ chartData' = EffectResult(newFiles, FALSE, chartData)
              /\ simulations' = [WithFiles(r.simulations, newFiles)
                                    EXCEPT !.tractorDepth = r.tractorDepth,
                                           !.stopTractorDepth = r.stopTractorDepth]
        /\ pending' = pending \ {r}
        /\ pc' = OnLoadOf(r.key)
        /\ UNCHANGED <<tractorDepth, stopTractorDepth, mounted,
                       forceDepth, stopDepth, portalVars, trajVars, callVars, editorVars>>

\* onChange of the "Start Tractor" input, rendered only while a tractor file is loaded
SetTractorDepth ==
    /\ mounted
    /\ files.tractor.loaded
    /\ \E v \in {NaN, 0, 4} :
          /\ tractorDepth' = v
          /\ simulations' = [simulations EXCEPT !.tractorDepth = v]
    /\ isStitched' = FALSE
    /\ chartData' = EffectResult(files, FALSE, chartData)
    /\ pc' = "depth"
    /\ UNCHANGED <<files, stopTractorDepth, mounted, pending,
                   forceDepth, stopDepth, portalVars, trajVars, callVars, editorVars>>

\* onChange of the "Stop Tractor" input
SetStopTractorDepth ==
    /\ mounted
    /\ files.tractor.loaded
    /\ \E v \in {NaN, 0, 6} :
          /\ stopTractorDepth' = v
          /\ simulations' = [simulations EXCEPT !.stopTractorDepth = v]
    /\ isStitched' = FALSE
    /\ chartData' = EffectResult(files, FALSE, chartData)
    /\ pc' = "stop"
    /\ UNCHANGED <<files, tractorDepth, mounted, pending,
                   forceDepth, stopDepth, portalVars, trajVars, callVars, editorVars>>

\* handleStitch: refused unless both RIH files are loaded
HandleStitch ==
    /\ mounted
    /\ files.rih.loaded /\ files.tractor.loaded
    /\ forceDepth' = ForceDepthOf(files, tractorDepth)
    /\ stopDepth' = StopDepthOf(stopTractorDepth, forceDepth')
    /\ isStitched' = TRUE
    /\ chartData' = EffectResult(files, TRUE, Stitch(files, tractorDepth, stopTractorDepth))
    /\ simulations' = [WithFiles(simulations, files)
                          EXCEPT !.tractorDepth = tractorDepth,
                                 !.stopTractorDepth = stopTractorDepth,
                                 !.chartData = Loaded(Stitch(files, tractorDepth,
                                                             stopTractorDepth))]
    /\ pc' = "stitch"
    /\ UNCHANGED <<files, tractorDepth, stopTractorDepth, mounted, pending,
                   portalVars, trajVars, callVars, editorVars>>

Next ==
    \/ Mount
    \/ \E key \in {"rih", "tractor", "pooh"} : RemoveFile(key)
    \/ \E key \in {"rih", "tractor", "pooh"} : StartUpload(key)
    \/ OnLoad
    \/ SetTractorDepth
    \/ SetStopTractorDepth
    \/ HandleStitch

Spec == Init /\ [][Next]_vars

\* file uploads and removals alone, on a new run
NextUploads ==
    \/ Mount
    \/ \E key \in {"rih", "tractor", "pooh"} : RemoveFile(key)
    \/ \E key \in {"rih", "tractor", "pooh"} : StartUpload(key)
    \/ OnLoad

SpecUploads == Init /\ [][NextUploads]_vars

\* useState(...) of a run whose files were uploaded in an earlier session and
\* never stitched
InitLoaded ==
    /\ files \in [rih : {Loaded(d) : d \in UploadChoices("rih")},
                  tractor : {Loaded(d) : d \in UploadChoices("tractor")},
                  pooh : {NoFile} \cup {Loaded(d) : d \in UploadChoices("pooh")}]
    /\ tractorDepth = 0
    /\ stopTractorDepth = 0
    /\ chartData = <<>>
    /\ isStitched = FALSE
    /\ mounted = FALSE
    /\ pending = {}
    /\ forceDepth = NaN
    /\ stopDepth = NaN
    /\ simulations = Persisted(files, tractorDepth, stopTractorDepth)
    /\ pc = "init"
    /\ BuilderOnly

\* removals, depth edits and stitch clicks on the files of such a run
NextEdits ==
    \/ Mount
    \/ \E key \in {"rih", "tractor", "pooh"} : RemoveFile(key)
    \/ SetTractorDepth
    \/ SetStopTractorDepth
    \/ HandleStitch

SpecEdits == InitLoaded /\ [][NextEdits]_vars

\* the stitcher on every combination of files and depths
NextStitch ==
    \/ Mount
    \/ HandleStitch
    \/ \E key \in {"rih", "tractor", "pooh"} : RemoveFile(key)

SpecStitch == InitStitch /\ [][NextStitch]_vars

\* two stitch runs over the same files: the stitcher alone, on every
\* combination of files and depths
NextDepths == Mount \/ HandleStitch

SpecDepths == InitStitch /\ [][NextDepths]_vars

---------------------------------------------------------------------------
(* FieldPortal and FieldPortalDashboard: the pressure adjustment *)

\* kg per bar of pressure difference and cm^2 of squared rod diameter, in units
\* of 1e-6 kg: 100000 * PI * (1 / 100 / 2)^2 / 9.81 = 0.800587
OffsetPerBarCm2 == 800587

\* FieldPortal: weightOffsetKg, from the adjustedWHP of the component's state
\* ((parseFloat(adjustedWHP) || 0) - originalWHP) * 100000 * rodArea / 9.81
WeightOffsetKg(r, adj) ==
    ((IF Truthy(adj.adjustedWHP) THEN adj.adjustedWHP ELSE 0) - r.whp)
        * r.rodDiameter * r.rodDiameter * OffsetPerBarCm2

\* a bug of the null test: the offset is added to a missing reading too
AddOffsetToNull(v, off) == v + off

\* d.field !== null ? d.field + weightOffsetKg : null
AddOffset(v, off) == IF v # Null THEN v + off ELSE Null

\* run.simulations.chartData.map(d => ({ ...d, rih_standard_1: ..., ... }))
ApplyOffset(cd, off) ==
    [i \in 1..Len(cd) |->
        [cd[i] EXCEPT !.rih_standard_1 = AddOffset(cd[i].rih_standard_1, off),
                      !.rih_standard_2 = AddOffset(cd[i].rih_standard_2, off),
                      !.rih_tractor = AddOffset(cd[i].rih_tractor, off),
                      !.pooh = AddOffset(cd[i].pooh, off)]]

\* useState(run.pressureAdjustment || { enabled: false, adjustedWHP: run.fluids?.whp || 0 })
InitialPressureAdj(r) ==
    IF r.pressureAdjustment.present THEN r.pressureAdjustment
    ELSE [present |-> TRUE, enabled |-> FALSE, adjustedWHP |-> r.whp]

\* FieldPortal's chartData memo
PortalChartData(r, adj) ==
    IF ~r.chartData.loaded THEN <<>>
    ELSE IF ~adj.enabled THEN r.chartData.data
    ELSE ApplyOffset(r.chartData.data, WeightOffsetKg(r, adj))

\* FieldPortalDashboard's chartData memo: the same transform over the run's
\* stored pressureAdjustment
DashboardChartData(r) ==
    IF ~r.chartData.loaded THEN <<>>
    ELSE IF ~r.pressureAdjustment.enabled THEN r.chartData.data
    ELSE ApplyOffset(r.chartData.data, WeightOffsetKg(r, r.pressureAdjustment))

\* the stitched series a run can hold: what handleStitch persisted
StitchedCharts ==
    { Stitch([rih |-> Loaded(d), tractor |-> t, pooh |-> p], 4, std) :
        d \in SortedFiles(RihSamples, MaxLen),
        t \in { Loaded(<<Sample(4, 204, Null), Sample(9, 209, 259)>>),
                Loaded(<<Sample(3, 203, 253), Sample(6, Null, 256)>>) },
        p \in { NoFile, Loaded(<<Sample(8, Null, 358)>>) },
        std \in {0, 8} }

AdjustedWHPs == {NaN, 0, 10, 15}

\* a run opened in the field portal
InitAdjust ==
    /\ run \in [chartData : {Loaded(c) : c \in StitchedCharts} \cup {NoFile},
                rodDiameter : {0, 2},
                whp : {0, 10},
                pressureAdjustment : [present : {TRUE}, enabled : BOOLEAN,
                                      adjustedWHP : {10, 15}] \cup {NoAdj}]
    /\ pressureAdj = InitialPressureAdj(run)
    /\ portalChart = <<>>
    /\ dashChart = <<>>
    /\ pc = "init"
    /\ files = [rih |-> NoFile, tractor |-> NoFile, pooh |-> NoFile]
    /\ tractorDepth = 0 /\ stopTractorDepth = 0 /\ chartData = <<>>
    /\ isStitched = FALSE /\ mounted = FALSE /\ pending = {}
    /\ forceDepth = NaN /\ stopDepth = NaN
    /\ simulations = NewSimulations
    /\ surveyPoints = <<>> /\ trajectory = <<>>
    /\ NoStore
    /\ NoCall /\ NoEditor

\* the first render of FieldPortal
RenderPortal ==
    /\ pc = "init"
    /\ portalChart' = PortalChartData(run, pressureAdj)
    /\ pc' = "portal"
    /\ UNCHANGED <<builderVars, run, pressureAdj, dashChart, storeVars,
                   trajVars, callVars, editorVars>>

\* the save calls a session of the model issues at most
MaxSaves == 2

\* the rows of the pickup table at most
MaxRows == 1

\* the run's entry of the jobs array as a save call has not read it yet
NoSnapshot == [pickupWeights |-> <<>>, pressureAdjustment |-> NoAdj]

\* savePickupWeights(newWeights) up to its first await: nothing happens when
\* nobody is signed in, else getDoc(runRef) is in flight
SavePickupWeights(newWeights) ==
    IF ~auth THEN saves
    ELSE Append(saves, [field |-> "pickupWeights", weights |-> newWeights,
                        adj |-> NoAdj, stage |-> "getDoc", snapshot |-> NoSnapshot])

\* savePressureAdjustment(newAdj) up to its first await
SavePressureAdjustment(newAdj) ==
    IF ~auth THEN saves
    ELSE Append(saves, [field |-> "pressureAdjustment", weights |-> <<>>,
                        adj |-> newAdj, stage |-> "getDoc", snapshot |-> NoSnapshot])

\* handlePressureChange(field, value) and the render that follows; the value of
\* 'adjustedWHP' is parseFloat of the input's text
HandlePressureChange ==
    /\ pc \notin {"init", "dashboard"}
    /\ auth => Len(saves) < MaxSaves
    /\ \/ pressureAdj' = [pressureAdj EXCEPT !.enabled = ~pressureAdj.enabled]
       \/ \E v \in AdjustedWHPs : pressureAdj' = [pressureAdj EXCEPT !.adjustedWHP = v]
    /\ portalChart' = PortalChartData(run, pressureAdj')
    /\ saves' = SavePressureAdjustment(pressureAdj')
    /\ pc' = "adjust"
    /\ UNCHANGED <<builderVars, run, dashChart, auth, wellDoc, pickupWeights,
                   trajVars, callVars, editorVars>>

\* handleAddPickupRow
HandleAddPickupRow ==
    /\ pc \notin {"init", "dashboard"}
    /\ auth => Len(saves) < MaxSaves
    /\ Len(pickupWeights) < MaxRows
    /\ pickupWeights' = Append(pickupWeights, [md |-> 0, weight |-> 0, type |-> "RIH"])
    /\ saves' = SavePickupWeights(pickupWeights')
    /\ pc' = "pickup"
    /\ UNCHANGED <<builderVars, run, pressureAdj, portalChart, dashChart, auth, wellDoc,
                   trajVars, callVars, editorVars>>

\* parseFloat(value) || 0 over the parsed number
ParsedOrZero(x) == IF x = NaN \/ x = 0 THEN 0 ELSE x

\* the row handleUpdatePickup(index, field, value) writes in place of pw; v is
\* the type for field 'type' and parseFloat(value) for 'md' and 'weight'
UpdatedRow(pw, field, v) ==
    IF field = "type" THEN [pw EXCEPT !.type = v]
    ELSE IF field = "md" THEN [pw EXCEPT !.md = ParsedOrZero(v)]
    ELSE [pw EXCEPT !.weight = ParsedOrZero(v)]

\* the edits of a pickup row the model makes
PickupEdits ==
    {<<"type", "RIH">>, <<"type", "POOH">>, <<"md", NaN>>, <<"md", 5>>, <<"weight", 7>>}

\* handleUpdatePickup(index, field, value)
HandleUpdatePickup ==
    /\ pc \notin {"init", "dashboard"}
    /\ auth => Len(saves) < MaxSaves
    /\ \E index \in 1..Len(pickupWeights), e \in PickupEdits :
          pickupWeights' = [i \in 1..Len(pickupWeights) |->
                              IF i # index THEN pickupWeights[i]
                              ELSE UpdatedRow(pickupWeights[i], e[1], e[2])]
    /\ saves' = SavePickupWeights(pickupWeights')
    /\ pc' = "pickup"
    /\ UNCHANGED <<builderVars, run, pressureAdj, portalChart, dashChart, auth, wellDoc,
                   trajVars, callVars, editorVars>>

\* handleDeletePickup(index)
HandleDeletePickup ==
    /\ pc \notin {"init", "dashboard"}
    /\ auth => Len(saves) < MaxSaves
    /\ \E index \in 1..Len(pickupWeights) :
          pickupWeights' = SubSeq(pickupWeights, 1, index - 1)
                              \o SubSeq(pickupWeights, index + 1, Len(pickupWeights))
    /\ saves' = SavePickupWeights(pickupWeights')
    /\ pc' = "pickup"
    /\ UNCHANGED <<builderVars, run, pressureAdj, portalChart, dashChart, auth, wellDoc,
                   trajVars, callVars, editorVars>>

\* await getDoc(runRef) of one save call returns the document as it is now
GetDocReturns ==
    /\ \E i \in 1..Len(saves) :
          /\ saves[i].stage = "getDoc"
          /\ saves' = [saves EXCEPT ![i].stage = "read", ![i].snapshot = wellDoc]
    /\ pc' = "getDoc"
    /\ UNCHANGED <<builderVars, run, pressureAdj, portalChart, dashChart, auth, wellDoc,
                   pickupWeights, trajVars, callVars, editorVars>>

\* updatedJobs of one save call: the run it read with one field replaced
UpdatedJob(save) ==
    IF save.field = "pickupWeights"
    THEN [save.snapshot EXCEPT !.pickupWeights = save.weights]
    ELSE [save.snapshot EXCEPT !.pressureAdjustment = save.adj]

\* the continuation of one save call: updateDoc(runRef, { jobs: updatedJobs })
UpdateDocWrites ==
    /\ \E i \in 1..Len(saves) :
          /\ saves[i].stage = "read"
          /\ wellDoc' = UpdatedJob(saves[i])
          /\ saves' = [saves EXCEPT ![i].stage = "done"]
    /\ pc' = "updateDoc"
    /\ UNCHANGED <<builderVars, run, pressureAdj, portalChart, dashChart, auth,
                   pickupWeights, trajVars, callVars, editorVars>>

\* the render of FieldPortalDashboard
RenderDashboard ==
    /\ pc = "init"
    /\ dashChart' = DashboardChartData(run)
    /\ pc' = "dashboard"
    /\ UNCHANGED <<builderVars, run, pressureAdj, portalChart, storeVars,
                   trajVars, callVars, editorVars>>

NextAdjust == RenderPortal \/ HandlePressureChange \/ RenderDashboard

SpecAdjust == InitAdjust /\ [][NextAdjust]_vars

\* the pickup tables a stored run can hold
StoredPickups == {<<>>, <<[md |-> 5, weight |-> 7, type |-> "POOH"]>>}

\* a stored run opened in the field portal by a signed-in user
InitSave ==
    /\ run \in [chartData : {NoFile},
                rodDiameter : {2},
                whp : {10},
                pressureAdjustment : {NoAdj, [present |-> TRUE, enabled |-> TRUE,
                                              adjustedWHP |-> 15]}]
    /\ pressureAdj = InitialPressureAdj(run)
    /\ portalChart = <<>>
    /\ dashChart = <<>>
    /\ pc = "init"
    /\ auth = TRUE
    /\ pickupWeights \in StoredPickups
    /\ wellDoc = [pickupWeights |-> pickupWeights,
                  pressureAdjustment |-> run.pressureAdjustment]
    /\ saves = <<>>
    /\ files = [rih |-> NoFile, tractor |-> NoFile, pooh |-> NoFile]
    /\ tractorDepth = 0 /\ stopTractorDepth = 0 /\ chartData = <<>>
    /\ isStitched = FALSE /\ mounted = FALSE /\ pending = {}
    /\ forceDepth = NaN /\ stopDepth = NaN
    /\ simulations = NewSimulations
    /\ surveyPoints = <<>> /\ trajectory = <<>>
    /\ NoCall /\ NoEditor

NextSave ==
    \/ RenderPortal
    \/ HandlePressureChange
    \/ HandleAddPickupRow
    \/ HandleUpdatePickup
    \/ HandleDeletePickup
    \/ GetDocReturns
    \/ UpdateDocWrites

SpecSave == InitSave /\ [][NextSave]_vars

---------------------------------------------------------------------------
(* calculateTrajectory *)

\* Angles are whole degrees out of IncSet and AziSet; sines, cosines and the
\* ratio factor are fixed-point numbers with TrigScale for 1, and north, east
\* and tvd are held in 1/TrigScale of the md unit.
TrigScale == 10000

\* the longest survey drawn, and the greatest md of a station
MaxStations == 3
MaxSurveyMD == 3

IncSet == {0, 90}
AziSet == {0, 90}

\* Math.cos(degToRad(a)) and Math.sin(degToRad(a)) for a multiple of 90 degrees
CosDeg(a) ==
    LET m == a % 360
    IN IF m = 0 THEN TrigScale ELSE IF m = 180 THEN 0 - TrigScale ELSE 0

SinDeg(a) ==
    LET m == a % 360
    IN IF m = 90 THEN TrigScale ELSE IF m = 270 THEN 0 - TrigScale ELSE 0

\* the argument of Math.acos, clamped to [-1, 1]:
\* cos(I2 - I1) - sin(I1) * sin(I2) * (1 - cos(A2 - A1))
CosDogleg(p1, p2) ==
    LET c == CosDeg(p2.inc - p1.inc)
             - ((((SinDeg(p1.inc) * SinDeg(p2.inc)) \div TrigScale)
                 * (TrigScale - CosDeg(p2.azi - p1.azi))) \div TrigScale)
    IN IF c > TrigScale THEN TrigScale ELSE IF c < 0 - TrigScale THEN 0 - TrigScale ELSE c

\* RF = 1 when dl <= 0.0001, else (2 / dl) * tan(dl / 2): 4 / PI = 1.2732 for the
\* dogleg of a right angle, the only other one the angle sets produce
RatioFactor(cosDl) ==
    IF cosDl = TrigScale THEN TrigScale ELSE 12732

\* one iteration of the loop over consecutive stations: the accumulators N, E,
\* TVD and the trajectory after station p2
TrajectoryStep(acc, p1, p2) ==
    IF p2.md <= p1.md THEN acc
    ELSE LET dm == p2.md - p1.md
             RF == RatioFactor(CosDogleg(p1, p2))
             nSum == ((SinDeg(p1.inc) * CosDeg(p1.azi)) \div TrigScale)
                     + ((SinDeg(p2.inc) * CosDeg(p2.azi)) \div TrigScale)
             eSum == ((SinDeg(p1.inc) * SinDeg(p1.azi)) \div TrigScale)
                     + ((SinDeg(p2.inc) * SinDeg(p2.azi)) \div TrigScale)
             tSum == CosDeg(p1.inc) + CosDeg(p2.inc)
             N == acc.N + dm * ((nSum * RF) \div (2 * TrigScale))
             E == acc.E + dm * ((eSum * RF) \div (2 * TrigScale))
             TVD == acc.TVD + dm * ((tSum * RF) \div (2 * TrigScale))
         IN [N |-> N, E |-> E, TVD |-> TVD,
             trajectory |-> Append(acc.trajectory,
                 [x |-> E, y |-> 0 - TVD, z |-> 0 - N, md |-> p2.md, tvd |-> TVD])]

RECURSIVE TrajectoryLoop(_, _, _)
TrajectoryLoop(sp, i, acc) ==
    IF i > Len(sp) THEN acc
    ELSE TrajectoryLoop(sp, i + 1, TrajectoryStep(acc, sp[i - 1], sp[i]))

\* calculateTrajectory(surveyPoints): the surface point, then one point per
\* station from the second on whose md exceeds its predecessor's
CalculateTrajectory(sp) ==
    IF Len(sp) = 0 THEN <<>>
    ELSE TrajectoryLoop(sp, 2,
            [N |-> 0, E |-> 0, TVD |-> 0,
             trajectory |-> <<[x |-> 0, y |-> 0, z |-> 0, md |-> 0, tvd |-> 0]>>]).trajectory

\* RunConfiguration: surveyMD = well.survey.map(p => p.md) and
\* surveyTVD = trajectory.map(p => p.tvd)
SurveyMD(sp) == [i \in 1..Len(sp) |-> sp[i].md]
SurveyTVD(traj) == [i \in 1..Len(traj) |-> traj[i].tvd]

Stations == [md : 0..MaxSurveyMD, inc : IncSet, azi : AziSet]

\* a survey as parseSurveyData returns it: the stations in file order
InitTraj ==
    /\ surveyPoints \in UNION { [1..n -> Stations] : n \in 0..MaxStations }
    /\ trajectory = <<>>
    /\ pc = "init"
    /\ files = [rih |-> NoFile, tractor |-> NoFile, pooh |-> NoFile]
    /\ tractorDepth = 0 /\ stopTractorDepth = 0 /\ chartData = <<>>
    /\ isStitched = FALSE /\ mounted = FALSE /\ pending = {}
    /\ forceDepth = NaN /\ stopDepth = NaN
    /\ simulations = NewSimulations
    /\ run = NoRun /\ pressureAdj = NoAdj /\ portalChart = <<>> /\ dashChart = <<>>
    /\ NoStore
    /\ NoCall /\ NoEditor

\* const trajectory = calculateTrajectory(well.survey)
Calculate ==
    /\ pc = "init"
    /\ trajectory' = CalculateTrajectory(surveyPoints)
    /\ pc' = "trajectory"
    /\ UNCHANGED <<builderVars, portalVars, surveyPoints, callVars, editorVars>>

NextTraj == Calculate

SpecTraj == InitTraj /\ [][NextTraj]_vars

---------------------------------------------------------------------------
(* interpolate *)

\* The state of every component while a pure function is under examination
BuilderIdle ==
    /\ files = [rih |-> NoFile, tractor |-> NoFile, pooh |-> NoFile]
    /\ tractorDepth = 0 /\ stopTractorDepth = 0 /\ chartData = <<>>
    /\ isStitched = FALSE /\ mounted = FALSE /\ pending = {}
    /\ forceDepth = NaN /\ stopDepth = NaN
    /\ simulations = NewSimulations
PortalIdle ==
    /\ run = NoRun /\ pressureAdj = NoAdj /\ portalChart = <<>> /\ dashChart = <<>>
    /\ NoStore
TrajIdle == surveyPoints = <<>> /\ trajectory = <<>>

\* A number that a division produced is the fraction num / den with den >= 0;
\* den = 0 holds what JavaScript answers to a division by zero: NaN for 0 / 0
\* (num = 0), Infinity (num > 0) and -Infinity (num < 0).
Frac(n) == [num |-> n, den |-> 1]
Div(a, b) ==
    IF b < 0 THEN [num |-> 0 - a, den |-> 0 - b] ELSE [num |-> a, den |-> b]
IsFinite(q) == q.den > 0
IsNaN(q) == q.den = 0 /\ q.num = 0
\* q1 === q2 on numbers (NaN equals nothing)
SameNumber(q1, q2) ==
    /\ ~IsNaN(q1) /\ ~IsNaN(q2)
    /\ IF q1.den = 0 \/ q2.den = 0
       THEN q1.den = q2.den /\ (q1.num > 0) = (q2.num > 0)
       ELSE q1.num * q2.den = q2.num * q1.den
\* q1 <= q2 on numbers (false when either is NaN)
Leq(q1, q2) ==
    /\ ~IsNaN(q1) /\ ~IsNaN(q2)
    /\ IF q1.den = 0 THEN q1.num < 0 \/ (q2.den = 0 /\ q2.num > 0)
       ELSE IF q2.den = 0 THEN q2.num > 0
       ELSE q1.num * q2.den <= q2.num * q1.den

\* y + ratio * dy for integers y and dy: Infinity * 0 and NaN * dy are NaN
MulAdd(y, ratio, dy) ==
    IF ratio.den = 0
    THEN IF ratio.num = 0 \/ dy = 0 THEN [num |-> 0, den |-> 0]
         ELSE [num |-> ratio.num * dy, den |-> 0]
    ELSE [num |-> y * ratio.den + ratio.num * dy, den |-> ratio.den]

\* interpolate with the two clamps left out
InterpolateNoClamp(x, xArray, yArray) ==
    IF Len(xArray) = 0 THEN Frac(0)
    ELSE LET hits == {i \in 1..(Len(xArray) - 1) : x >= xArray[i] /\ x <= xArray[i + 1]}
         IN IF hits # {}
            THEN LET i == CHOOSE h \in hits : \A j \in hits : h <= j
                 IN MulAdd(yArray[i], Div(x - xArray[i], xArray[i + 1] - xArray[i]),
                           yArray[i + 1] - yArray[i])
            ELSE Frac(0)

\* interpolate(x, xArray, yArray): the first i with xArray[i] <= x <= xArray[i+1]
\* decides; else the clamps; else 0
Interpolate(x, xArray, yArray) ==
    IF Len(xArray) = 0 THEN Frac(0)
    ELSE LET hits == {i \in 1..(Len(xArray) - 1) : x >= xArray[i] /\ x <= xArray[i + 1]}
         IN IF hits # {}
            THEN LET i == CHOOSE h \in hits : \A j \in hits : h <= j
                 IN MulAdd(yArray[i], Div(x - xArray[i], xArray[i + 1] - xArray[i]),
                           yArray[i + 1] - yArray[i])
            ELSE IF x < xArray[1] THEN Frac(yArray[1])
            ELSE IF x > xArray[Len(xArray)] THEN Frac(yArray[Len(yArray)])
            ELSE Frac(0)

\* the longest table drawn and the greatest abscissa in it
MaxKnots == 3
MaxX == 3

Abscissae == 0..MaxX
Ordinates == {0, 2, 5}

\* the tables drawn: every pair of arrays of one length over the small sets,
\* and the table xs = [0, 100], ys = [0, 200]
InterpolateArgs ==
    UNION { [fn : {"interpolate"}, x : (0 - 1)..(MaxX + 1),
             xArray : [1..n -> Abscissae], yArray : [1..n -> Ordinates]]
            : n \in 0..MaxKnots }
    \cup [fn : {"interpolate"}, x : {0 - 10, 0, 50, 100, 150},
          xArray : {<<0, 100>>}, yArray : {<<0, 200>>}]

InitInterp ==
    /\ args \in InterpolateArgs
    /\ result = <<>>
    /\ pc = "init"
    /\ BuilderIdle /\ PortalIdle /\ TrajIdle /\ NoEditor

CallInterpolate ==
    /\ pc = "init"
    /\ args.fn = "interpolate"
    /\ result' = Interpolate(args.x, args.xArray, args.yArray)
    /\ pc' = "interpolate"
    /\ UNCHANGED <<builderVars, portalVars, trajVars, args, editorVars>>

NextInterp == CallInterpolate

SpecInterp == InitInterp /\ [][NextInterp]_vars

---------------------------------------------------------------------------
(* calculateIDFromODWeight *)

\* Lengths (od, id) are whole thousandths of their unit, the precision of
\* toFixed(3).  A weight is a whole number of quanta of 2.67e-6 of its unit, so
\* that wLbFt / 2.67 of a weight in lb/ft is a whole number of square
\* thousandths of an inch.  1 / 2.54 is 50 / 127 and 0.671969 is taken as
\* 84 / 125; idSq is kept as a numerator over IdSqDen.
CmSqNum == 2500
CmSqDen == 16129
KgMNum == 84
KgMDen == 125
IdSqDen == CmSqDen * KgMDen

\* the greatest od and the greatest weight drawn
MaxOd == 6
MaxWeight == 24

\* odInch * odInch, over CmSqDen
OdInchSq(od, unitOD) ==
    IF unitOD = "in" THEN od * od * CmSqDen ELSE od * od * CmSqNum

\* wLbFt, over KgMDen
WLbFt(weight, unitWeight) ==
    IF unitWeight = "lb/ft" THEN weight * KgMDen ELSE weight * KgMNum

\* parseFloat(Math.sqrt(p / q).toFixed(3)) in thousandths: the k nearest to the
\* root, (2k - 1)^2 <= 4p/q < (2k + 1)^2
RoundSqrt(p, q) ==
    CHOOSE k \in 0..(3 * MaxOd + 3) :
        /\ 4 * p < q * (2 * k + 1) * (2 * k + 1)
        /\ k > 0 => q * (2 * k - 1) * (2 * k - 1) <= 4 * p

\* calculateIDFromODWeight(od, weight, unitOD, unitWeight, unitID): null unless
\* od and weight are positive and idSq > 0; else the root of idSq, in unitID
\* (idInch * 2.54 is the root of idSq * 6.4516), rounded to 3 decimals
CalculateIDFromODWeight(od, weight, unitOD, unitWeight, unitID) ==
    IF od <= 0 \/ weight <= 0 THEN Null
    ELSE LET idSq == OdInchSq(od, unitOD) * KgMDen - WLbFt(weight, unitWeight) * CmSqDen
         IN IF idSq > 0
            THEN RoundSqrt(idSq, IF unitID = "in" THEN IdSqDen ELSE CmSqNum * KgMDen)
            ELSE Null

LengthUnits == {"cm", "in"}
WeightUnits == {"kg/m", "lb/ft"}

InitID ==
    /\ args \in [fn : {"calculateIDFromODWeight"}, od : 0..MaxOd, weight : 0..MaxWeight,
                 unitOD : LengthUnits, unitWeight : WeightUnits, unitID : LengthUnits]
    /\ result = <<>>
    /\ pc = "init"
    /\ BuilderIdle /\ PortalIdle /\ TrajIdle /\ NoEditor

CallCalculateID ==
    /\ pc = "init"
    /\ args.fn = "calculateIDFromODWeight"
    /\ result' = CalculateIDFromODWeight(args.od, args.weight, args.unitOD,
                                         args.unitWeight, args.unitID)
    /\ pc' = "calculateID"
    /\ UNCHANGED <<builderVars, portalVars, trajVars, args, editorVars>>

NextID == CallCalculateID

SpecID == InitID /\ [][NextID]_vars

---------------------------------------------------------------------------
(* StepArchitectureImport: the casing section editor *)

\* Depths (start, end, maxDepth) are whole hundredths of their unit, the
\* precision of toFixed(2); friction factors are tenths.

\* the longest section list
MaxSections == 2

\* parseFloat((a / b).toFixed(n)) for a >= 0 and b > 0, in units of the last digit
RoundDiv(a, b) == (2 * a + b) \div (2 * b)

DefaultUnits == [depth |-> "m", id |-> "cm", od |-> "cm", weight |-> "kg/m"]

\* the section addSection appends
NewSection(secs, u) ==
    [start |-> IF Len(secs) > 0 THEN secs[Len(secs)].end ELSE 0,
     end |-> 0, id |-> 0, od |-> 0, weight |-> 0,
     fricRodRIH |-> 10, fricRodPOOH |-> 10, fricToolRIH |-> 3, fricToolPOOH |-> 3,
     units |-> u]

\* updateSection with the id recomputed whatever the field
UpdatedSectionAlwaysRecompute(sec, field, value, u) ==
    LET s1 == [[sec EXCEPT ![field] = value] EXCEPT !.units = u]
        newID == CalculateIDFromODWeight(s1.od, s1.weight, u.od, u.weight, u.id)
    IN IF newID # Null THEN [s1 EXCEPT !.id = newID] ELSE s1

\* newSec[idx] after updateSection(idx, field, value), value being
\* parseFloat(value) || 0 already
UpdatedSection(sec, field, value, u) ==
    LET s1 == [[sec EXCEPT ![field] = value] EXCEPT !.units = u]
    IN IF field = "weight" \/ field = "od"
       THEN LET newID == CalculateIDFromODWeight(s1.od, s1.weight, u.od, u.weight, u.id)
            IN IF newID # Null THEN [s1 EXCEPT !.id = newID] ELSE s1
       ELSE s1

\* x || y for the id a unit toggle recomputes: null and 0 are falsy
OrElse(x, y) == IF x = Null \/ x = 0 THEN y ELSE x

\* toFixed(2) of a weight of num / den quanta; a hundredth of the weight unit
\* is 1000000 / 267 quanta
WeightToFixed2(num, den) ==
    (RoundDiv(num * 267, den * 1000000) * 1000000) \div 267

\* the unit a toggle of column key switches to
ToggledUnit(key, u) ==
    IF key = "depth" THEN (IF u.depth = "m" THEN "ft" ELSE "m")
    ELSE IF key = "weight" THEN (IF u.weight = "kg/m" THEN "lb/ft" ELSE "kg/m")
    ELSE (IF u[key] = "cm" THEN "in" ELSE "cm")

\* one section after toggleUnit(key): the column is converted and rounded, and
\* a toggle of od or weight recomputes the id
ToggledSection(sec, key, u) ==
    LET newUnit == ToggledUnit(key, u)
        nextUnits == [u EXCEPT ![key] = newUnit]
        newSec == [sec EXCEPT !.units = nextUnits]
    IN IF key = "depth"
       THEN IF newUnit = "ft"
            THEN [newSec EXCEPT !.start = RoundDiv(sec.start * 328084, 100000),
                                !.end = RoundDiv(sec.end * 328084, 100000)]
            ELSE [newSec EXCEPT !.start = RoundDiv(sec.start * 100000, 328084),
                                !.end = RoundDiv(sec.end * 100000, 328084)]
       ELSE IF key = "od"
       THEN LET od == IF newUnit = "in" THEN RoundDiv(sec.od * 100, 254)
                      ELSE RoundDiv(sec.od * 254, 100)
            IN [newSec EXCEPT !.od = od,
                   !.id = OrElse(CalculateIDFromODWeight(od, sec.weight, newUnit,
                                                         u.weight, u.id), sec.id)]
       ELSE IF key = "id"
       THEN [newSec EXCEPT !.id = IF newUnit = "in" THEN RoundDiv(sec.id * 100, 254)
                                  ELSE RoundDiv(sec.id * 254, 100)]
       ELSE LET weight == IF newUnit = "lb/ft"
                          THEN WeightToFixed2(sec.weight * KgMNum, KgMDen)
                          ELSE WeightToFixed2(sec.weight * KgMDen, KgMNum)
            IN [newSec EXCEPT !.weight = weight,
                   !.id = OrElse(CalculateIDFromODWeight(sec.od, weight, u.od,
                                                         newUnit, u.id), sec.id)]

\* sections.some(s => s.end > maxDepth || s.start > maxDepth)
ExceedsMaxDepth(secs, md) ==
    \E i \in 1..Len(secs) : secs[i].end > md \/ secs[i].start > md

Fields == {"start", "end", "od", "weight", "id",
           "fricRodRIH", "fricRodPOOH", "fricToolRIH", "fricToolPOOH"}

\* what a user types into the input of a field (an empty input parses to 0)
FieldValues(field) ==
    IF field = "start" THEN {0}
    ELSE IF field = "end" THEN {200}
    ELSE IF field = "od" THEN {3}
    ELSE IF field = "weight" THEN {0, 1}
    ELSE IF field = "id" THEN {2}
    ELSE IF field \in {"fricToolRIH", "fricToolPOOH"} THEN {3}
    ELSE {10}

\* the column headers a user clicks: those whose toggle converts a depth or
\* recomputes the id
ToggleKeys == {"depth", "od", "weight"}

\* the wizard's third step opened on a new well
InitEditor ==
    /\ sections = <<>>
    /\ units = DefaultUnits
    /\ maxDepth = 300
    /\ saved = <<>>
    /\ pc = "init"
    /\ BuilderIdle /\ PortalIdle /\ TrajIdle /\ NoCall

EditorOpen == pc # "finish"

AddSection ==
    /\ EditorOpen
    /\ Len(sections) < MaxSections
    /\ sections' = Append(sections, NewSection(sections, units))
    /\ pc' = "edit"
    /\ UNCHANGED <<builderVars, portalVars, trajVars, callVars, units, maxDepth, saved>>

RemoveSection(idx) ==
    /\ EditorOpen
    /\ idx \in 1..Len(sections)
    /\ sections' = [i \in 1..(Len(sections) - 1) |->
                        IF i < idx THEN sections[i] ELSE sections[i + 1]]
    /\ pc' = "edit"
    /\ UNCHANGED <<builderVars, portalVars, trajVars, callVars, units, maxDepth, saved>>

UpdateSection(idx, field, value) ==
    /\ EditorOpen
    /\ idx \in 1..Len(sections)
    /\ sections' = [sections EXCEPT ![idx] = UpdatedSection(sections[idx], field, value, units)]
    /\ pc' = "edit"
    /\ UNCHANGED <<builderVars, portalVars, trajVars, callVars, units, maxDepth, saved>>

ToggleUnit(key) ==
    /\ EditorOpen
    /\ units' = [units EXCEPT ![key] = ToggledUnit(key, units)]
    /\ sections' = [i \in 1..Len(sections) |-> ToggledSection(sections[i], key, units)]
    /\ pc' = "edit"
    /\ UNCHANGED <<builderVars, portalVars, trajVars, callVars, maxDepth, saved>>

\* the save button: disabled while there is no section or one exceeds maxDepth
Finish ==
    /\ EditorOpen
    /\ Len(sections) > 0
    /\ ~ExceedsMaxDepth(sections, maxDepth)
    /\ saved' = sections
    /\ pc' = "finish"
    /\ UNCHANGED <<builderVars, portalVars, trajVars, callVars, sections, units, maxDepth>>

NextEditor ==
    \/ AddSection
    \/ \E idx \in 1..MaxSections : RemoveSection(idx)
    \/ \E idx \in 1..MaxSections, field \in Fields :
          \E value \in FieldValues(field) : UpdateSection(idx, field, value)
    \/ \E key \in ToggleKeys : ToggleUnit(key)
    \/ Finish

SpecEditor == InitEditor /\ [][NextEditor]_vars

\* updateSection alone, from the states the editor can be in when a field is
\* typed into: one or two sections whose fields were typed, computed or loaded
\* from the saved well, under any choice of units
DrawnSections ==
    [start : {0}, end : {0, 200}, id : {0, 4}, od : {0, 3}, weight : {0, 1, MaxWeight},
     fricRodRIH : {10}, fricRodPOOH : {10}, fricToolRIH : {3}, fricToolPOOH : {3},
     units : {DefaultUnits}]

InitUpdate ==
    /\ units \in [depth : {"m", "ft"}, id : LengthUnits, od : LengthUnits,
                  weight : WeightUnits]
    /\ \E n \in 1..MaxSections :
          \E secs \in [1..n -> DrawnSections] :
              sections = [i \in 1..n |-> [secs[i] EXCEPT !.units = units]]
    /\ maxDepth = 300
    /\ saved = <<>>
    /\ pc = "init"
    /\ BuilderIdle /\ PortalIdle /\ TrajIdle /\ NoCall

NextUpdate ==
    /\ pc = "init"
    /\ \E idx \in 1..MaxSections, field \in Fields :
          \E value \in FieldValues(field) : UpdateSection(idx, field, value)

SpecUpdate == InitUpdate /\ [][NextUpdate]_vars

---------------------------------------------------------------------------
(* Text parsing: parseSurveyData and parseSimulationCSV *)

\* A text is a string; numbers parsed out of it are fractions (Frac, Div) whose
\* denominator is a power of ten, and NaN is 0 / 0.  Exponents and the words
\* Infinity and NaN do not occur in the texts drawn.
Char(s, i) == SubSeq(s, i, i)
Rest(s, i) == SubSeq(s, i, Len(s))

\* \s
Whitespace == {" ", "\t", "\r", "\n"}
DigitChars == {"0", "1", "2", "3", "4", "5", "6", "7", "8", "9"}
DigitValue(c) == CHOOSE n \in 0..9 : Char("0123456789", n + 1) = c

RECURSIVE TrimLeft(_)
TrimLeft(s) ==
    IF Len(s) > 0 /\ Char(s, 1) \in Whitespace THEN TrimLeft(Rest(s, 2)) ELSE s

RECURSIVE TrimRight(_)
TrimRight(s) ==
    IF Len(s) > 0 /\ Char(s, Len(s)) \in Whitespace
    THEN TrimRight(SubSeq(s, 1, Len(s) - 1)) ELSE s

\* String.prototype.trim
Trim(s) == TrimRight(TrimLeft(s))

\* the index of the last character of the run of separators that starts at i
RECURSIVE RunEnd(_, _, _)
RunEnd(s, seps, i) ==
    IF i < Len(s) /\ Char(s, i + 1) \in seps THEN RunEnd(s, seps, i + 1) ELSE i

\* s.split(sep) from index i on, the current part having started at start; with
\* runs, a whole run of separators is one separator (the regex [...]+)
RECURSIVE SplitFrom(_, _, _, _, _)
SplitFrom(s, seps, runs, i, start) ==
    IF i > Len(s) THEN <<SubSeq(s, start, Len(s))>>
    ELSE IF Char(s, i) \in seps
    THEN LET j == IF runs THEN RunEnd(s, seps, i) ELSE i
         IN <<SubSeq(s, start, i - 1)>> \o SplitFrom(s, seps, runs, j + 1, j + 1)
    ELSE SplitFrom(s, seps, runs, i + 1, start)

Split(s, seps, runs) == SplitFrom(s, seps, runs, 1, 1)

\* s.replace(/c/g, '') for the characters of a set
RECURSIVE RemoveAll(_, _)
RemoveAll(s, chars) ==
    IF Len(s) = 0 THEN s
    ELSE IF Char(s, 1) \in chars THEN RemoveAll(Rest(s, 2), chars)
    ELSE Char(s, 1) \o RemoveAll(Rest(s, 2), chars)

\* s.replace(c, d): the first occurrence only
RECURSIVE ReplaceFirst(_, _, _)
ReplaceFirst(s, c, d) ==
    IF Len(s) = 0 THEN s
    ELSE IF Char(s, 1) = c THEN d \o Rest(s, 2)
    ELSE Char(s, 1) \o ReplaceFirst(Rest(s, 2), c, d)

\* s.replace(/^"|"$/g, '')
StripQuotes(s) ==
    LET a == IF Len(s) > 0 /\ Char(s, 1) = "\"" THEN Rest(s, 2) ELSE s
    IN IF Len(a) > 0 /\ Char(a, Len(a)) = "\"" THEN SubSeq(a, 1, Len(a) - 1) ELSE a

\* the number of digits of s from index i on
RECURSIVE DigitRun(_, _)
DigitRun(s, i) ==
    IF i <= Len(s) /\ Char(s, i) \in DigitChars THEN 1 + DigitRun(s, i + 1) ELSE 0

\* the value of the n digits of s from index i on, appended to acc
RECURSIVE DigitsValue(_, _, _, _)
DigitsValue(s, i, n, acc) ==
    IF n = 0 THEN acc
    ELSE DigitsValue(s, i + 1, n - 1, 10 * acc + DigitValue(Char(s, i)))

RECURSIVE Pow10(_)
Pow10(n) == IF n = 0 THEN 1 ELSE 10 * Pow10(n - 1)

\* parseFloat(s): leading whitespace, a sign, digits, a point, digits; what
\* follows is ignored; NaN when there is no digit
ParseFloat(s) ==
    LET t == TrimLeft(s)
        signed == Len(t) > 0 /\ Char(t, 1) \in {"-", "+"}
        b == IF signed THEN 2 ELSE 1
        ni == DigitRun(t, b)
        hasPoint == b + ni <= Len(t) /\ Char(t, b + ni) = "."
        nf == IF hasPoint THEN DigitRun(t, b + ni + 1) ELSE 0
        magnitude == DigitsValue(t, b + ni + 1, nf, DigitsValue(t, b, ni, 0))
    IN IF ni + nf = 0 THEN [num |-> 0, den |-> 0]
       ELSE [num |-> IF signed /\ Char(t, 1) = "-" THEN 0 - magnitude ELSE magnitude,
             den |-> Pow10(nf)]

\* parts[col - 1], or undefined
Undefined == "undefined"
Part(parts, col) == IF col \in 1..Len(parts) THEN parts[col] ELSE Undefined

\* cleanFloat of parseSurveyData
CleanFloat(str, thousandSep) ==
    IF str = Undefined \/ str = "" THEN Frac(0)
    ELSE LET s0 == StripQuotes(str)
             s1 == IF thousandSep = "space" THEN RemoveAll(s0, Whitespace)
                   ELSE IF thousandSep = "." THEN RemoveAll(s0, {"."})
                   ELSE IF thousandSep = "," THEN RemoveAll(s0, {","})
                   ELSE s0
             s2 == IF thousandSep # "," THEN ReplaceFirst(s1, ",", ".") ELSE s1
             val == ParseFloat(s2)
         IN IF IsNaN(val) THEN Frac(0) ELSE val

\* parseFloat(q.toFixed(2)) in hundredths, for q >= 0
RECURSIVE Gcd(_, _)
Gcd(a, b) == IF b = 0 THEN a ELSE Gcd(b, a % b)

ToFixed2(q) ==
    LET g == Gcd(q.den, 100)
    IN RoundDiv(q.num * (100 \div g), q.den \div g)

Meter == [num |-> 1, den |-> 1]
Foot == [num |-> 381, den |-> 1250]

\* line.split(...) for a delimiter setting
SurveyParts(line, delimiter) ==
    IF delimiter = "auto" THEN Split(line, {"\t", ",", ";", " "}, TRUE)
    ELSE IF delimiter = "tab" THEN Split(line, {"\t"}, FALSE)
    ELSE Split(line, {delimiter}, FALSE)

\* the body of the loop over the lines: parsed after line i
RECURSIVE SurveyLoop(_, _, _, _)
SurveyLoop(lines, config, i, parsed) ==
    IF i > Len(lines) THEN parsed
    ELSE LET line == Trim(lines[i])
             parts == SurveyParts(line, config.delimiter)
             rawMD == Part(parts, config.colMD)
             rawInc == Part(parts, config.colInc)
             rawAzi == Part(parts, config.colAzi)
             cf == CleanFloat(rawMD, config.thousandSep)
             md == [num |-> cf.num * config.unitMultiplier.num,
                    den |-> cf.den * config.unitMultiplier.den]
         IN IF line = "" \/ rawMD = Undefined \/ rawInc = Undefined \/ md.num < 0
            THEN SurveyLoop(lines, config, i + 1, parsed)
            ELSE SurveyLoop(lines, config, i + 1,
                    Append(parsed, [md |-> ToFixed2(md),
                                    inc |-> CleanFloat(rawInc, config.thousandSep),
                                    azi |-> CleanFloat(rawAzi, config.thousandSep)]))

Max(a, b) == IF a >= b THEN a ELSE b

\* parseSurveyData(text, config)
ParseSurveyData(text, config) ==
    IF text = "" THEN <<>>
    ELSE SurveyLoop(Split(text, {"\n"}, FALSE), config, Max(1, config.startLine), <<>>)

\* the survey texts pasted into the wizard
SurveyTexts ==
    {"",
     "1.234,56\t10\t20",
     "MD;INC;AZI\n0;0;0\n100,5;10,25;20",
     "0 0 0\n1 000 45 90\n\n\"12.5\",3,4",
     "-5\t1\t2\n7\n+2.50\t x\t9"}

SurveyConfigs ==
    [startLine : {0, 1, 2}, delimiter : {"auto", "tab", ",", ";"},
     colMD : {1, 2}, colInc : {2, 3}, colAzi : {3, 4},
     unitMultiplier : {Meter, Foot}, thousandSep : {"none", "space", ".", ","}]

InitSurvey ==
    /\ args \in [fn : {"parseSurveyData"}, text : SurveyTexts, config : SurveyConfigs]
    /\ result = <<>>
    /\ pc = "init"
    /\ BuilderIdle /\ PortalIdle /\ TrajIdle /\ NoEditor

CallParseSurveyData ==
    /\ pc = "init"
    /\ args.fn = "parseSurveyData"
    /\ result' = ParseSurveyData(args.text, args.config)
    /\ pc' = "parseSurveyData"
    /\ UNCHANGED <<builderVars, portalVars, trajVars, args, editorVars>>

NextSurvey == CallParseSurveyData

SpecSurvey == InitSurvey /\ [][NextSurvey]_vars

\* null in a sample: no number
NullNumber == [num |-> 1, den |-> 0 - 1]
IsNull(q) == q.den < 0

\* isNaN(x) ? null : x, with 0 in the place of null
OrZero(q) == IF IsNaN(q) THEN Frac(0) ELSE q

\* isNaN(x) ? null : x
OrNull(q) == IF IsNaN(q) THEN NullNumber ELSE q

\* parseFloat(parts[k]); parseFloat(undefined) is NaN
ParsePart(parts, k) ==
    IF Part(parts, k) = Undefined THEN [num |-> 0, den |-> 0] ELSE ParseFloat(Part(parts, k))

\* a.md - b.md <= 0 for two parsed md values
MdLeq(a, b) == a.md.num * b.md.den <= b.md.num * a.md.den

\* the place of x in a sorted sequence: behind every element that is not greater
RECURSIVE InsertSorted(_, _)
InsertSorted(sorted, x) ==
    IF Len(sorted) = 0 THEN <<x>>
    ELSE IF MdLeq(Head(sorted), x) THEN <<Head(sorted)>> \o InsertSorted(Tail(sorted), x)
    ELSE <<x>> \o sorted

\* data.sort((a, b) => a.md - b.md): a stable sort
RECURSIVE SortByMd(_)
SortByMd(data) ==
    IF Len(data) = 0 THEN <<>>
    ELSE InsertSorted(SortByMd(SubSeq(data, 1, Len(data) - 1)), data[Len(data)])

\* /^\d/.test(lines[i].trim())
StartsWithDigit(line) ==
    LET t == Trim(line) IN Len(t) > 0 /\ Char(t, 1) \in DigitChars

\* startIdx, as a 1-based line number: the first of the first 10 lines that
\* starts with a digit, else the second line
StartIdx(lines) ==
    LET first == {i \in 1..Len(lines) : i <= 10 /\ StartsWithDigit(lines[i])}
    IN IF first = {} THEN 2 ELSE CHOOSE i \in first : \A j \in first : i <= j

\* the columns of a line: split(/[\t,;]+/)
CsvParts(line) == Split(line, {"\t", ",", ";"}, TRUE)

\* the loop over the lines from startIdx on: data after line i
RECURSIVE CsvLoop(_, _, _)
CsvLoop(lines, i, data) ==
    IF i > Len(lines) THEN data
    ELSE LET line == Trim(lines[i])
             parts == CsvParts(line)
             md == ParsePart(parts, 1)
         IN IF line = "" \/ IsNaN(md) THEN CsvLoop(lines, i + 1, data)
            ELSE CsvLoop(lines, i + 1,
                    Append(data, [md |-> md, rih |-> OrNull(ParsePart(parts, 2)),
                                  pooh |-> OrNull(ParsePart(parts, 3))]))

\* parseSimulationCSV(text)
ParseSimulationCSV(text) ==
    LET lines == Split(text, {"\n"}, FALSE)
    IN SortByMd(CsvLoop(lines, StartIdx(lines), <<>>))

\* the most lines a text holds
MaxLines == 3

\* the lines an exported simulation file is made of
CsvLines ==
    {"MD;RIH;POOH", "", "10;1.5;-2\r", "5,7", "x;1;2", "2.5\t\t0;;n/a", "10,abc,0"}

RECURSIVE Join(_)
Join(lines) ==
    IF Len(lines) = 0 THEN ""
    ELSE IF Len(lines) = 1 THEN lines[1]
    ELSE lines[1] \o "\n" \o Join(Tail(lines))

CsvTexts == { Join(ls) : ls \in UNION { [1..n -> CsvLines] : n \in 0..MaxLines } }

InitCsv ==
    /\ args \in [fn : {"parseSimulationCSV"}, text : CsvTexts]
    /\ result = <<>>
    /\ pc = "init"
    /\ BuilderIdle /\ PortalIdle /\ TrajIdle /\ NoEditor

CallParseSimulationCSV ==
    /\ pc = "init"
    /\ args.fn = "parseSimulationCSV"
    /\ result' = ParseSimulationCSV(args.text)
    /\ pc' = "parseSimulationCSV"
    /\ UNCHANGED <<builderVars, portalVars, trajVars, args, editorVars>>

NextCsv == CallParseSimulationCSV

SpecCsv == InitCsv /\ [][NextCsv]_vars

---------------------------------------------------------------------------
(* StepFluids: the pressure profile *)

\* Depths are fractions of a metre, sg is in hundredths, whp in bar and a
\* pressure in tenths of a bar, the precision of toFixed(1).  Sums are exact
\* where the source adds floating-point numbers.
Norm(q) ==
    IF q.den = 0 THEN q
    ELSE LET g == Gcd(Abs(q.num), q.den)
         IN [num |-> q.num \div g, den |-> q.den \div g]
FracAdd(a, b) == Norm([num |-> a.num * b.den + b.num * a.den, den |-> a.den * b.den])
FracSub(a, b) == Norm([num |-> a.num * b.den - b.num * a.den, den |-> a.den * b.den])
\* a > b (false when either is NaN)
FracGreater(a, b) == a.den > 0 /\ b.den > 0 /\ a.num * b.den > b.num * a.den

\* the most fluid layers, and the most samples the loop is followed for
MaxLayers == 3
MaxPoints == 52

\* the steps the depth range is cut into
DepthSteps == 50

\* getTVD(md) = interpolate(md, surveyMD, surveyTVD), md being a fraction over
\* DepthSteps: both md and surveyMD are taken times DepthSteps
GetTVD(md, surveyMD, surveyTVD) ==
    Norm(Interpolate(md.num, [i \in 1..Len(surveyMD) |-> md.den * surveyMD[i]], surveyTVD))

\* data.list.map(...): each layer with its band [startTVD, endTVD], the bands
\* stacked from currentTVD = 0 down
RECURSIVE FluidSectionsFrom(_, _, _, _)
FluidSectionsFrom(list, i, currentTVD, maxTVD) ==
    IF i > Len(list) THEN <<>>
    ELSE LET height == Norm([num |-> list[i].percent * maxTVD, den |-> 100])
             end == FracAdd(currentTVD, height)
         IN <<[sg |-> list[i].sg, percent |-> list[i].percent,
               startTVD |-> currentTVD, endTVD |-> end]>>
            \o FluidSectionsFrom(list, i + 1, end, maxTVD)

FluidSections(list, maxTVD) == FluidSectionsFrom(list, 1, Frac(0), maxTVD)

\* the inner loop with the whole band added whenever the sample lies below its top
RECURSIVE ColumnWeightWholeBands(_, _, _)
ColumnWeightWholeBands(tvd, fluidSections, i) ==
    IF i > Len(fluidSections) THEN Frac(0)
    ELSE LET f == fluidSections[i]
             part == IF FracGreater(tvd, f.startTVD) THEN FracSub(f.endTVD, f.startTVD)
                     ELSE Frac(0)
         IN FracAdd([num |-> part.num * f.sg, den |-> part.den],
                    ColumnWeightWholeBands(tvd, fluidSections, i + 1))

\* the inner loop over the fluid sections: the sum of height * sg, the factor
\* 0.0981 left to ToFixed1
RECURSIVE ColumnWeight(_, _, _)
ColumnWeight(tvd, fluidSections, i) ==
    IF i > Len(fluidSections) THEN Frac(0)
    ELSE LET f == fluidSections[i]
             part == IF FracGreater(tvd, f.endTVD) THEN FracSub(f.endTVD, f.startTVD)
                     ELSE IF FracGreater(tvd, f.startTVD) THEN FracSub(tvd, f.startTVD)
                     ELSE Frac(0)
         IN FracAdd([num |-> part.num * f.sg, den |-> part.den],
                    ColumnWeight(tvd, fluidSections, i + 1))

\* a / b rounded to the nearest whole number, halves away from zero, b even
RoundHalf(a, b) ==
    IF a >= 0 THEN (a + (b \div 2)) \div b ELSE 0 - (((0 - a) + (b \div 2)) \div b)

\* p = whp + w * 0.0981 for w in metres times hundredths of sg, as a fraction of a bar
PressureOf(whp, w) ==
    [num |-> whp * 1000000 * w.den + w.num * 981, den |-> 1000000 * w.den]

\* parseFloat(p.toFixed(1)), in tenths of a bar
ToFixed1(p) == RoundHalf(p.num, p.den \div 10)

\* the least and the greatest element of a non-empty array
MinOf(ys) == CHOOSE v \in {ys[i] : i \in 1..Len(ys)} : \A j \in 1..Len(ys) : v <= ys[j]
MaxOf(ys) == CHOOSE v \in {ys[i] : i \in 1..Len(ys)} : \A j \in 1..Len(ys) : v >= ys[j]

\* Math.max(...xs, 0)
MaxWith(xs, m) == IF \E i \in 1..Len(xs) : xs[i] > m THEN MaxOf(xs) ELSE m

\* the wells: surveyMD and surveyTVD of a vertical well of 1000 m, of a well
\* that deviates at 500 m, of a well of 25 m and of a survey of one station
\* at 0.  Their depthStep and its multiples are exact in binary floating
\* point, so the exact sums below are the sums the loop computes.
Wells ==
    {[surveyMD |-> <<0, 1000>>, surveyTVD |-> <<0, 1000>>],
     [surveyMD |-> <<0, 500, 1000>>, surveyTVD |-> <<0, 500, 800>>],
     [surveyMD |-> <<0, 25>>, surveyTVD |-> <<0, 25>>],
     [surveyMD |-> <<0>>, surveyTVD |-> <<0>>]}

\* fluid layers: gas, oil and water columns, a fresh-water column over the
\* whole well, and layers whose percent or sg was typed negative
Layers ==
    {[sg |-> 10, percent |-> 50], [sg |-> 85, percent |-> 30],
     [sg |-> 100, percent |-> 100], [sg |-> 105, percent |-> 0 - 50],
     [sg |-> 0 - 50, percent |-> 50]}

InitFluids ==
    /\ \E w \in Wells, whp \in {0, 10} :
          \E n \in 0..MaxLayers :
              \E list \in [1..n -> Layers] :
                  args = [fn |-> "pressureData",
                          data |-> [whp |-> whp, list |-> list],
                          maxMD |-> MaxWith(w.surveyMD, 0),
                          maxTVD |-> MaxOf(w.surveyTVD),
                          surveyMD |-> w.surveyMD, surveyTVD |-> w.surveyTVD]
    /\ result = <<>>
    /\ pc = "init"
    /\ BuilderIdle /\ PortalIdle /\ TrajIdle /\ NoEditor

\* the useMemo callback up to the loop: points = [], md = 0
EnterPressureData ==
    /\ pc = "init"
    /\ args.fn = "pressureData"
    /\ result' = [md |-> [num |-> 0, den |-> DepthSteps], points |-> <<>>]
    /\ pc' = "pressureLoop"
    /\ UNCHANGED <<builderVars, portalVars, trajVars, args, editorVars>>

\* md <= maxMD
InRange(md, maxMD) == md.num <= maxMD * md.den

\* one iteration of for (md = 0; md <= maxMD; md += depthStep)
SamplePressure ==
    /\ pc = "pressureLoop"
    /\ InRange(result.md, args.maxMD)
    /\ Len(result.points) < MaxPoints
    /\ LET md == result.md
           tvd == GetTVD(md, args.surveyMD, args.surveyTVD)
           w == ColumnWeight(tvd, FluidSections(args.data.list, args.maxTVD), 1)
       IN result' = [md |-> [num |-> md.num + args.maxMD, den |-> md.den],
                     points |-> Append(result.points,
                         [md |-> RoundDiv(md.num, md.den),
                          pressure |-> ToFixed1(PressureOf(args.data.whp, w))])]
    /\ UNCHANGED <<builderVars, portalVars, trajVars, args, editorVars, pc>>

\* the loop is left and points is returned
ReturnPressureData ==
    /\ pc = "pressureLoop"
    /\ ~InRange(result.md, args.maxMD)
    /\ pc' = "pressureData"
    /\ UNCHANGED <<builderVars, portalVars, trajVars, callVars, editorVars>>

NextFluids == EnterPressureData \/ SamplePressure \/ ReturnPressureData

SpecFluids == InitFluids /\ [][NextFluids]_vars

---------------------------------------------------------------------------
(* Properties of the stitched series *)

Points == 1..Len(chartData)

\* C1: in a stitched series a point below forceDepth has no rih_standard_2, a
\* point in [forceDepth, stopDepth) has no rih_standard_1, and a point at or
\* beyond stopDepth has neither rih_standard_1 nor rih_tractor (forceDepth and
\* stopDepth being the values handleStitch used, after defaulting).
C1PhaseFields ==
    isStitched =>
        \A i \in Points :
            LET p == chartData[i]
            IN /\ p.md < forceDepth => p.rih_standard_2 = Null
               /\ (forceDepth <= p.md /\ p.md < stopDepth) => p.rih_standard_1 = Null
               /\ p.md >= stopDepth => (p.rih_standard_1 = Null /\ p.rih_tractor = Null)

\* a stitched series with a reading in each of the three phases
C1Witness ==
    /\ isStitched
    /\ \E i, j, k \in Points :
          /\ chartData[i].md < forceDepth /\ chartData[i].rih_standard_1 # Null
          /\ forceDepth <= chartData[j].md /\ chartData[j].md < stopDepth
          /\ chartData[j].rih_tractor # Null
          /\ chartData[k].md >= stopDepth /\ chartData[k].rih_standard_2 # Null

\* whether v is the pooh of a sample of data within the tolerance of md, or
\* null when data has no sample there
PoohFrom(data, md, v) ==
    LET near == {j \in 1..Len(data) : Abs(data[j].md - md) < Tol}
    IN IF near = {} THEN v = Null ELSE \E j \in near : v = data[j].pooh

\* C2: the pooh of a stitched point comes from the POOH override file when one
\* is loaded (a sample within 0.5 of the point's md, else null), otherwise from
\* the tractor file's sample near the point; only with neither loaded does the
\* chart take pooh from the tractor-off file.
C2PoohPriority ==
    /\ isStitched =>
          \A i \in Points :
              IF files.pooh.loaded
              THEN PoohFrom(files.pooh.data, chartData[i].md, chartData[i].pooh)
              ELSE /\ files.tractor.loaded
                   /\ PoohFrom(files.tractor.data, chartData[i].md, chartData[i].pooh)
    /\ (mounted /\ files.rih.loaded /\ ~files.tractor.loaded /\ ~files.pooh.loaded) =>
          /\ Len(chartData) = Len(files.rih.data)
          /\ \A i \in Points : chartData[i].pooh = files.rih.data[i].pooh

\* a stitched point that takes its pooh from the override file although the
\* tractor file has a pooh reading near it
C2Witness ==
    /\ isStitched /\ files.pooh.loaded
    /\ \E i \in Points :
          /\ chartData[i].pooh # Null
          /\ \E j \in 1..Len(files.tractor.data) :
                /\ Abs(files.tractor.data[j].md - chartData[i].md) < Tol
                /\ files.tractor.data[j].pooh # Null

\* C3: a stitched series has exactly one point for each distinct md of the
\* three input series, in strictly ascending md order.
C3UnionOfMDs ==
    isStitched =>
        /\ {chartData[i].md : i \in Points}
              = MdSet(files.rih.data) \cup MdSet(files.tractor.data)
                  \cup MdSet(files.pooh.data)
        /\ \A i, j \in Points : i < j => chartData[i].md < chartData[j].md

\* a stitched series over three files, two of which share an md
C3Witness ==
    /\ isStitched /\ files.pooh.loaded
    /\ MdSet(files.pooh.data) \ (MdSet(files.rih.data) \cup MdSet(files.tractor.data)) # {}
    /\ MdSet(files.rih.data) \cap MdSet(files.tractor.data) # {}
    /\ Len(chartData) >= 3

\* C4: with only the tractor-off file loaded the chart has one point per rih
\* sample, in order, with rih_standard_1 the sample's rih and the two other RIH
\* fields null.
C4RihOnly ==
    (mounted /\ files.rih.loaded /\ ~files.tractor.loaded /\ ~files.pooh.loaded) =>
        /\ Len(chartData) = Len(files.rih.data)
        /\ \A i \in Points :
              /\ chartData[i].md = files.rih.data[i].md
              /\ chartData[i].rih_standard_1 = files.rih.data[i].rih
              /\ chartData[i].rih_tractor = Null
              /\ chartData[i].rih_standard_2 = Null

\* the chart of a tractor-off file alone, after the tractor file of a stitched
\* chart was removed
C4Witness ==
    /\ pc = "remove" /\ forceDepth # NaN
    /\ files.rih.loaded /\ ~files.tractor.loaded /\ ~files.pooh.loaded
    /\ Len(chartData) >= 2
    /\ \E i \in Points : chartData[i].rih_standard_1 # Null

\* the points below forceDepth that carry a rih_tractor value
TractorBelowForce ==
    {i \in Points : chartData[i].md < forceDepth /\ chartData[i].rih_tractor # Null}

C6NoPhase3 ==
    (isStitched /\ (stopTractorDepth = NaN \/ stopTractorDepth = 0
                    \/ stopTractorDepth <= forceDepth)) =>
        \A i \in Points : chartData[i].rih_standard_2 = Null

\* C8: per stitched point the three RIH fields exclude each other, but for one
\* connector point with rih_standard_1 and rih_tractor and one with rih_tractor
\* and rih_standard_2.
C8Exclusive ==
    isStitched =>
        /\ \A i \in Points :
              ~(chartData[i].rih_standard_1 # Null /\ chartData[i].rih_standard_2 # Null)
        /\ Cardinality({i \in Points : chartData[i].rih_standard_1 # Null
                                        /\ chartData[i].rih_tractor # Null}) <= 1
        /\ Cardinality({i \in Points : chartData[i].rih_tractor # Null
                                        /\ chartData[i].rih_standard_2 # Null}) <= 1

\* a stitched series with both connector points
C8Witness ==
    /\ isStitched
    /\ \E i, j \in Points :
          /\ chartData[i].rih_standard_1 # Null /\ chartData[i].rih_tractor # Null
          /\ chartData[j].rih_tractor # Null /\ chartData[j].rih_standard_2 # Null

---------------------------------------------------------------------------
(* The phase-boundary scenario: rih covers md 0..1000, the tractor file covers
   md 500..1500, forceDepth is 500 and stopDepth 1200.  In quarter depth units
   these are 0..4000, 2000..6000, 2000 and 4800. *)

\* a file sampled every step from md from through md to (to itself included),
\* each sample with the reading base + slope * md and a POOH reading
RangeFile(from, to, step, base, slope) ==
    LET n == (to - from) \div step + 1
        body == [i \in 1..n |->
                    Sample(from + (i - 1) * step,
                           base + slope * (from + (i - 1) * step),
                           50000 + from + (i - 1) * step)]
    IN IF body[n].md = to THEN body
       ELSE Append(body, Sample(to, base + slope * to, 50000 + to))

ScenarioRih ==
    { RangeFile(0, 4000, step, base, slope) :
        step \in {400, 800, 1000, 2000}, base \in {10000}, slope \in {1, 0 - 1} }

ScenarioTractor ==
    { RangeFile(2000, 6000, step, base, slope) :
        step \in {400, 1000, 1600, 2000}, base \in {30000}, slope \in {1, 0 - 1} }

ScenarioPooh ==
    { NoFile,
      Loaded(<<Sample(1800, Null, 70000), Sample(4400, Null, 70001)>>),
      Loaded(<<Sample(1999, Null, 70000), Sample(5000, Null, Null)>>),
      Loaded(<<Sample(4799, Null, 70000)>>) }

InitPhase ==
    /\ files \in [rih : {Loaded(d) : d \in ScenarioRih},
                  tractor : {Loaded(d) : d \in ScenarioTractor},
                  pooh : ScenarioPooh]
    /\ tractorDepth = 2000
    /\ stopTractorDepth = 4800
    /\ chartData = <<>>
    /\ isStitched = FALSE
    /\ mounted = FALSE
    /\ pending = {}
    /\ forceDepth = NaN
    /\ stopDepth = NaN
    /\ simulations = Persisted(files, tractorDepth, stopTractorDepth)
    /\ pc = "init"
    /\ BuilderOnly

NextPhase == Mount \/ HandleStitch

SpecPhase == InitPhase /\ [][NextPhase]_vars

Below500 == {i \in Points : chartData[i].md < 2000}
From500To1200 == {i \in Points : 2000 <= chartData[i].md /\ chartData[i].md < 4800}
From1200 == {i \in Points : chartData[i].md >= 4800}

\* C7 as stated: below 500 only rih_standard_1 is set, in [500, 1200) only
\* rih_tractor, from 1200 on rih_standard_2 is set, and a connector point
\* carries both rih_standard_1 and rih_tractor.
C7OnlyOwnField ==
    isStitched =>
        /\ \A i \in Below500 :
              chartData[i].rih_tractor = Null /\ chartData[i].rih_standard_2 = Null
        /\ \A i \in From500To1200 :
              chartData[i].rih_standard_1 = Null /\ chartData[i].rih_standard_2 = Null
        /\ \A i \in From1200 : chartData[i].rih_standard_2 # Null
        /\ \E i \in Points :
              chartData[i].rih_standard_1 # Null /\ chartData[i].rih_tractor # Null

\* the last point below 500 with a rih_standard_1, and the last point of
\* [500, 1200) with a rih_tractor
LastOf(S) == CHOOSE i \in S : \A j \in S : j <= i
Connector1 == LastOf({i \in Below500 : chartData[i].rih_standard_1 # Null})
Connector2 == LastOf({i \in From500To1200 : chartData[i].rih_tractor # Null})

\* C7, amended: below 500 no point has a rih_standard_2 and only the connector
\* point, the last point below 500 with a rih_standard_1, has a rih_tractor,
\* equal to its rih_standard_1; in [500, 1200) no point has a rih_standard_1
\* and only the last point with a rih_tractor may have a rih_standard_2, equal
\* to its rih_tractor; from 1200 on every point has only rih_standard_2 set,
\* to the last Phase-1 value (the extension fallback).
C7PhaseBoundaries ==
    isStitched =>
        /\ \A i \in Below500 :
              /\ chartData[i].rih_standard_2 = Null
              /\ i # Connector1 => chartData[i].rih_tractor = Null
        /\ chartData[Connector1].rih_tractor # Null
        /\ chartData[Connector1].rih_tractor = chartData[Connector1].rih_standard_1
        /\ \A i \in From500To1200 :
              /\ chartData[i].rih_standard_1 = Null
              /\ i # Connector2 => chartData[i].rih_standard_2 = Null
              /\ chartData[i].rih_standard_2 # Null =>
                    chartData[i].rih_standard_2 = chartData[i].rih_tractor
        /\ From1200 # {}
        /\ \A i \in From1200 :
              /\ chartData[i].rih_standard_1 = Null
              /\ chartData[i].rih_tractor = Null
              /\ chartData[i].rih_standard_2 = chartData[Connector1].rih_standard_1

\* a stitch of the scenario with both connectors and a Phase-1 point that is
\* no connector
C7Witness ==
    /\ isStitched
    /\ Cardinality(Below500) >= 2
    /\ chartData[Connector2].rih_standard_2 # Null
    /\ \E i \in From500To1200 : i # Connector2 /\ chartData[i].rih_tractor # Null

---------------------------------------------------------------------------
(* Properties of the pressure adjustment *)

\* out is the series cd with off added to every reading and nothing else changed
Shifted(cd, out, off) ==
    /\ Len(out) = Len(cd)
    /\ \A i \in 1..Len(cd) :
          /\ out[i].md = cd[i].md
          /\ out[i].rih_standard_1 =
                (IF cd[i].rih_standard_1 = Null THEN Null ELSE cd[i].rih_standard_1 + off)
          /\ out[i].rih_standard_2 =
                (IF cd[i].rih_standard_2 = Null THEN Null ELSE cd[i].rih_standard_2 + off)
          /\ out[i].rih_tractor =
                (IF cd[i].rih_tractor = Null THEN Null ELSE cd[i].rih_tractor + off)
          /\ out[i].pooh = (IF cd[i].pooh = Null THEN Null ELSE cd[i].pooh + off)

\* the chart of the field portal and of the dashboard is the run's series
\* shifted by the weight offset when the adjustment is enabled, the run's
\* series itself when it is not
AdjustedCharts ==
    /\ (pc \in {"portal", "adjust"} /\ run.chartData.loaded) =>
          IF pressureAdj.enabled
          THEN Shifted(run.chartData.data, portalChart, WeightOffsetKg(run, pressureAdj))
          ELSE portalChart = run.chartData.data
    /\ (pc = "dashboard" /\ run.chartData.loaded) =>
          IF run.pressureAdjustment.enabled
          THEN Shifted(run.chartData.data, dashChart,
                       WeightOffsetKg(run, run.pressureAdjustment))
          ELSE dashChart = run.chartData.data

\* C9: the adjusted series has the length and the md values of the stitched
\* series, every reading raised by the one weightOffsetKg and every null still
\* null; the stitched series of the run is not modified; with the adjustment
\* disabled the series is the stitched series.
C9AdjustmentFrame == [](AdjustedCharts) /\ [][run' = run]_vars

\* an enabled adjustment by a non-zero offset of a series with both readings
\* and nulls, after the adjusted WHP was edited
C9Witness ==
    /\ pc = "adjust" /\ pressureAdj.enabled
    /\ WeightOffsetKg(run, pressureAdj) # 0
    /\ \E i \in 1..Len(portalChart) :
          portalChart[i].rih_tractor # Null /\ portalChart[i].rih_standard_2 = Null
    /\ portalChart # run.chartData.data

---------------------------------------------------------------------------
(* Properties of the trajectory *)

\* the survey is all-vertical with strictly increasing md
VerticalSurvey ==
    /\ Len(surveyPoints) >= 1
    /\ \A i \in 1..Len(surveyPoints) : surveyPoints[i].inc = 0
    /\ \A i \in 1..(Len(surveyPoints) - 1) : surveyPoints[i].md < surveyPoints[i + 1].md

\* C10: for an all-vertical survey with strictly increasing md, the trajectory
\* has tvd = md at every station, also when the first station lies below the
\* surface, and north = east = 0 at every point.
C10VerticalClosure ==
    (pc = "trajectory" /\ VerticalSurvey) =>
        /\ \A k \in 1..Len(surveyPoints) :
              \E n \in 1..Len(trajectory) :
                  /\ trajectory[n].md = surveyPoints[k].md
                  /\ trajectory[n].tvd = surveyPoints[k].md * TrigScale
        /\ \A n \in 1..Len(trajectory) : trajectory[n].x = 0 /\ trajectory[n].z = 0

\* the survey has at least one station and strictly increasing md
IncreasingSurvey ==
    /\ Len(surveyPoints) >= 1
    /\ \A i \in 1..(Len(surveyPoints) - 1) : surveyPoints[i].md < surveyPoints[i + 1].md

\* C11: for a survey of n >= 1 stations with strictly increasing md the
\* trajectory has n + 1 points, the surface point at md = 0 followed by one
\* point per station carrying that station's md, in order.
C11PointPerStation ==
    (pc = "trajectory" /\ IncreasingSurvey) =>
        /\ Len(trajectory) = Len(surveyPoints) + 1
        /\ trajectory[1].md = 0
        /\ \A k \in 1..Len(surveyPoints) :
              k + 1 <= Len(trajectory) /\ trajectory[k + 1].md = surveyPoints[k].md

---------------------------------------------------------------------------
(* Properties of interpolate *)

StrictlyAscending(xs) == \A i \in 1..(Len(xs) - 1) : xs[i] < xs[i + 1]
NonDecreasing(xs) == \A i \in 1..(Len(xs) - 1) : xs[i] <= xs[i + 1]

\* C12: with xs strictly ascending and of at least two elements, interpolate
\* returns the point of the chord over every interval [xs[i], xs[i+1]] that
\* contains x, ys[0] when x < xs[0] and ys[last] when x > xs[last]; it returns
\* 0 when xs is empty; for xs = [0, 100], ys = [0, 200] it returns 100 at 50,
\* 0 at -10 and 200 at 150.
C12PiecewiseLinear ==
    pc = "interpolate" =>
        LET x == args.x
            xs == args.xArray
            ys == args.yArray
            n == Len(xs)
        IN /\ n = 0 => SameNumber(result, Frac(0))
           /\ (n >= 2 /\ StrictlyAscending(xs)) =>
                 /\ x < xs[1] => SameNumber(result, Frac(ys[1]))
                 /\ x > xs[n] => SameNumber(result, Frac(ys[n]))
                 /\ \A i \in 1..(n - 1) :
                       (xs[i] <= x /\ x <= xs[i + 1]) =>
                           /\ IsFinite(result)
                           /\ result.num * (xs[i + 1] - xs[i])
                                = result.den * (ys[i] * (xs[i + 1] - xs[i])
                                                + (x - xs[i]) * (ys[i + 1] - ys[i]))
           /\ (xs = <<0, 100>> /\ ys = <<0, 200>>) =>
                 /\ x = 50 => SameNumber(result, Frac(100))
                 /\ x = 0 - 10 => SameNumber(result, Frac(0))
                 /\ x = 150 => SameNumber(result, Frac(200))

\* the lookup at 50 in the table [0, 100] -> [0, 200], halfway up the chord
C12Witness ==
    /\ pc = "interpolate"
    /\ args.xArray = <<0, 100>> /\ args.yArray = <<0, 200>> /\ args.x = 50
    /\ SameNumber(result, Frac(100))

\* C13: for every non-empty xs in non-decreasing order (a single element and
\* equal consecutive values included) and every x, interpolate returns a
\* defined number between the minimum and the maximum of ys: never the outcome
\* of a division by zero, and never 0 when ys holds no 0.
C13NeverFails ==
    (pc = "interpolate" /\ Len(args.xArray) >= 1 /\ NonDecreasing(args.xArray)) =>
        /\ IsFinite(result)
        /\ Leq(Frac(MinOf(args.yArray)), result)
        /\ Leq(result, Frac(MaxOf(args.yArray)))
        /\ (\A i \in 1..Len(args.yArray) : args.yArray[i] # 0) => result.num # 0

---------------------------------------------------------------------------
(* Properties of the casing geometry *)

\* a < b for a length a in unit ua and a length b in unit ub (1 in = 2.54 cm)
LengthLess(a, ua, b, ub) ==
    IF ua = ub THEN a < b
    ELSE IF ua = "in" THEN a * 254 < b * 100
    ELSE a * 100 < b * 254

\* C14: whenever calculateIDFromODWeight returns a non-null id for od > 0 and
\* weight > 0, the id, as returned after its rounding to 3 decimals, is
\* strictly less than od, both taken in one length unit.
C14IdBelowOd ==
    (pc = "calculateID" /\ args.od > 0 /\ args.weight > 0 /\ result # Null) =>
        LengthLess(result, args.unitID, args.od, args.unitOD)

\* C15: updateSection on field id sets that section's id to the value and
\* leaves its od and weight untouched; on field od or weight it sets id to the
\* value of calculateIDFromODWeight when that is non-null and leaves id as it
\* was when it is null; on any other field (start, end, friction factors) it
\* leaves id, od and weight unchanged.  No other section changes.
C15UpdateFrame ==
    [][\A idx \in 1..MaxSections, field \in Fields :
          \A value \in FieldValues(field) :
              (/\ pc' = "edit" /\ units' = units
               /\ idx <= Len(sections) /\ Len(sections') = Len(sections)
               /\ sections'[idx][field] = value
               /\ sections' = [sections EXCEPT
                       ![idx] = UpdatedSection(sections[idx], field, value, units)]) =>
                  LET old == sections[idx]
                      new == sections'[idx]
                      newID == CalculateIDFromODWeight(new.od, new.weight,
                                                       units.od, units.weight, units.id)
                  IN /\ Len(sections') = Len(sections)
                     /\ \A j \in 1..Len(sections) : j # idx => sections'[j] = sections[j]
                     /\ field = "id" =>
                            new.id = value /\ new.od = old.od /\ new.weight = old.weight
                     /\ field \in {"od", "weight"} =>
                            new.id = IF newID # Null THEN newID ELSE old.id
                     /\ field \notin {"id", "od", "weight"} =>
                            new.id = old.id /\ new.od = old.od /\ new.weight = old.weight
    ]_vars

\* an od of 3 in and a weight of 1 typed into the first of two sections, whose
\* id in cm was recomputed from them, the second section being as it was
C15Witness ==
    /\ pc = "edit" /\ Len(sections) = 2
    /\ units.od = "in" /\ units.id = "cm" /\ units.weight = "kg/m"
    /\ sections[1].od = 3 /\ sections[1].weight = 1 /\ sections[1].id = 7
    /\ sections[2].id = 4 /\ sections[2].od = 3 /\ sections[2].weight = MaxWeight

\* C16: every section the editor holds after any sequence of addSection,
\* updateSection, removeSection and toggleUnit, and every section handed to
\* onFinish, has start < end.
C16StartBeforeEnd ==
    /\ \A i \in 1..Len(sections) : sections[i].start < sections[i].end
    /\ \A i \in 1..Len(saved) : saved[i].start < saved[i].end

---------------------------------------------------------------------------
(* Properties of the parsers *)

\* C17: the line "1.234,56<TAB>10<TAB>20" parsed with thousandSep = '.',
\* colMD = 1, colInc = 2, colAzi = 3 and unitMultiplier = 1 yields the one
\* station md = 1234.56, inc = 10, azi = 20 under the delimiter settings that
\* separate its columns, 'tab' and the wizard's default 'auto'.
C17ThousandSeparator ==
    (/\ pc = "parseSurveyData"
     /\ args.text = "1.234,56\t10\t20"
     /\ args.config.thousandSep = "." /\ args.config.unitMultiplier = Meter
     /\ args.config.colMD = 1 /\ args.config.colInc = 2 /\ args.config.colAzi = 3
     /\ args.config.delimiter \in {"auto", "tab"}) =>
        /\ Len(result) = 1
        /\ result[1].md = 123456
        /\ SameNumber(result[1].inc, Frac(10))
        /\ SameNumber(result[1].azi, Frac(20))

\* the lines of the text parsed, and those that yield a sample: the non-blank
\* lines from the detected start line on whose first column parses as a number
CsvLinesOf(text) == Split(text, {"\n"}, FALSE)
SampleLines(text) ==
    LET lines == CsvLinesOf(text)
    IN {i \in StartIdx(lines)..Len(lines) :
            /\ Trim(lines[i]) # ""
            /\ ~IsNaN(ParsePart(CsvParts(Trim(lines[i])), 1))}

\* column k of a line as the sample holds it: its number, and null when the
\* column is missing or is no number
ColumnOrNull(line, k) ==
    LET parts == CsvParts(Trim(line))
    IN IF k > Len(parts) \/ IsNaN(ParseFloat(parts[k])) THEN NullNumber
       ELSE ParseFloat(parts[k])

\* C18: parseSimulationCSV returns its samples in non-decreasing md order,
\* exactly one for each non-blank line at or after the detected start line
\* whose first column parses as a number; rih and pooh are the numbers of
\* columns 2 and 3, and null (never 0) when the column is missing or does not
\* parse.
C18SamplesOfLines ==
    pc = "parseSimulationCSV" =>
        LET lines == CsvLinesOf(args.text)
            from == SampleLines(args.text)
        IN /\ \A k \in 1..(Len(result) - 1) : MdLeq(result[k], result[k + 1])
           /\ Len(result) = Cardinality(from)
           /\ \E f \in [from -> 1..Len(result)] :
                 /\ \A i, j \in from : i # j => f[i] # f[j]
                 /\ \A i \in from :
                       /\ result[f[i]].md = ParseFloat(CsvParts(Trim(lines[i]))[1])
                       /\ result[f[i]].rih = ColumnOrNull(lines[i], 2)
                       /\ result[f[i]].pooh = ColumnOrNull(lines[i], 3)

\* a file with a header, whose samples come out of order, one with rih = 0 kept
\* and pooh null, one with both columns parsed
C18Witness ==
    /\ pc = "parseSimulationCSV"
    /\ args.text = "MD;RIH;POOH\n10;1.5;-2\r\n2.5\t\t0;;n/a"
    /\ Len(result) = 2
    /\ result[1] = [md |-> [num |-> 25, den |-> 10], rih |-> Frac(0), pooh |-> NullNumber]
    /\ result[2].rih = [num |-> 15, den |-> 10] /\ result[2].pooh = Frac(0 - 2)

---------------------------------------------------------------------------
(* Properties of the pressure profile *)

InPressureData == pc \in {"pressureLoop", "pressureData"}

\* the top of band i: the heights (percent/100)*maxTVD of the bands declared before it
RECURSIVE BandTop(_, _, _)
BandTop(list, i, maxTVD) ==
    IF i = 1 THEN Frac(0)
    ELSE FracAdd(BandTop(list, i - 1, maxTVD),
                 Norm([num |-> list[i - 1].percent * maxTVD, den |-> 100]))

\* the height of band i that lies above tvd
HeightAbove(list, i, maxTVD, tvd) ==
    LET top == BandTop(list, i, maxTVD)
        height == Norm([num |-> list[i].percent * maxTVD, den |-> 100])
        depth == FracSub(tvd, top)
    IN IF ~FracGreater(depth, Frac(0)) THEN Frac(0)
       ELSE IF FracGreater(depth, height) THEN height
       ELSE depth

\* the sum over the layers of (height above tvd) * sg
RECURSIVE HydrostaticSum(_, _, _, _)
HydrostaticSum(list, i, maxTVD, tvd) ==
    IF i = 0 THEN Frac(0)
    ELSE LET h == HeightAbove(list, i, maxTVD, tvd)
         IN FracAdd([num |-> h.num * list[i].sg, den |-> h.den],
                    HydrostaticSum(list, i - 1, maxTVD, tvd))

\* the TVD of the k-th sample
SampleTVD(k) ==
    GetTVD([num |-> (k - 1) * args.maxMD, den |-> DepthSteps], args.surveyMD, args.surveyTVD)

\* whp + sum * 0.0981 at the k-th sample
HydrostaticPressure(k) ==
    PressureOf(args.data.whp,
               HydrostaticSum(args.data.list, Len(args.data.list), args.maxTVD, SampleTVD(k)))

NonNegative(field) == \A i \in 1..Len(args.data.list) : args.data.list[i][field] >= 0

\* C19 as stated: every sample's pressure is exactly whp plus the sum over the
\* bands of (height above the sample's TVD) * sg * 0.0981, and the pressure
\* is non-decreasing in TVD when every sg >= 0.
C19ExactPressure ==
    InPressureData /\ result.points # <<>> =>
        LET k == Len(result.points)
            p == HydrostaticPressure(k)
        IN /\ result.points[k].pressure * p.den = 10 * p.num
           /\ NonNegative("sg") =>
                \A j \in 1..k :
                    ~FracGreater(SampleTVD(j), SampleTVD(k))
                        => result.points[j].pressure <= result.points[k].pressure

\* C19: for layers whose percent is not negative every sample's pressure is
\* whp plus the sum over the bands of (height above the sample's TVD) * sg *
\* 0.0981 rounded to one decimal, and when in addition every sg >= 0 the
\* pressure is non-decreasing in TVD.
C19RoundedPressure ==
    InPressureData /\ result.points # <<>> /\ NonNegative("percent") =>
        LET k == Len(result.points)
        IN /\ result.points[k].pressure = ToFixed1(HydrostaticPressure(k))
           /\ NonNegative("sg") =>
                \A j \in 1..k :
                    ~FracGreater(SampleTVD(j), SampleTVD(k))
                        => result.points[j].pressure <= result.points[k].pressure

\* one layer of sg 1.0 and 100 % in the vertical well of 1000 m with whp = 0
\* gives 98.1 bar at md = 1000
C19Witness ==
    /\ pc = "pressureData"
    /\ args.data = [whp |-> 0, list |-> <<[sg |-> 100, percent |-> 100]>>]
    /\ args.surveyMD = <<0, 1000>> /\ args.surveyTVD = <<0, 1000>>
    /\ Len(result.points) = DepthSteps + 1
    /\ result.points[DepthSteps + 1] = [md |-> 1000, pressure |-> 981]

\* C20: the loop of the pressure profile takes DepthSteps + 1 samples and
\* no more, and what it returns are the samples at md = k * maxMD / DepthSteps
\* for k = 0..DepthSteps.
C20Terminates ==
    InPressureData =>
        /\ Len(result.points) <= DepthSteps + 1
        /\ pc = "pressureData" =>
              /\ Len(result.points) = DepthSteps + 1
              /\ \A k \in 1..(DepthSteps + 1) :
                    result.points[k].md = RoundDiv((k - 1) * args.maxMD, DepthSteps)

---------------------------------------------------------------------------
(* Properties of the connectors and of the lookups *)

\* the samples of data within the tolerance of md
Near(data, md) == {j \in 1..Len(data) : Abs(data[j].md - md) < Tol}

\* the stitched points of each phase that have a sample of their file near them
Phase1Matched ==
    {i \in Points : chartData[i].md < forceDepth
                    /\ Near(files.rih.data, chartData[i].md) # {}}
Phase2Matched ==
    {i \in Points : forceDepth <= chartData[i].md /\ chartData[i].md < stopDepth
                    /\ Near(files.tractor.data, chartData[i].md) # {}}

\* C21: when a Phase-1 point with a tractor-off match and a Phase-2
\* point with a tractor-on match exist, the last Phase-1 matched point has a
\* rih_tractor, equal to its rih_standard_1, and is the only point below
\* forceDepth that has one.
C21ConnectorDrawn ==
    (isStitched /\ Phase1Matched # {} /\ Phase2Matched # {}) =>
        LET c == LastOf(Phase1Matched)
        IN /\ chartData[c].rih_tractor # Null
           /\ chartData[c].rih_tractor = chartData[c].rih_standard_1
           /\ \A i \in Points :
                 (chartData[i].md < forceDepth /\ chartData[i].rih_tractor # Null) => i = c

\* C22: the last Phase-2 matched point has rih_standard_2, equal to its
\* rih_tractor, exactly when some later point of the series has a
\* rih_standard_2; when no later point has one, no point below stopDepth has a
\* rih_standard_2.
C22Connector2 ==
    (isStitched /\ Phase2Matched # {}) =>
        LET c == LastOf(Phase2Matched)
            later == \E j \in Points : j > c /\ chartData[j].rih_standard_2 # Null
        IN /\ later <=> (/\ chartData[c].rih_standard_2 # Null
                         /\ chartData[c].rih_standard_2 = chartData[c].rih_tractor)
           /\ ~later => \A i \in Points :
                            chartData[i].md < stopDepth => chartData[i].rih_standard_2 = Null

\* the stitched points below forceDepth with a tractor-off match whose sample
\* has a reading
Phase1Known ==
    {i \in Phase1Matched : chartData[i].rih_standard_1 # Null}

\* C23: a point at or beyond stopDepth with a rih sample within 0.5 has that
\* sample's rih as rih_standard_2; without one its rih_standard_2 is the rih
\* of the last Phase-1 point that had a tractor-off match, and null only when
\* no Phase-1 value is known.
C23Phase3Values ==
    isStitched =>
        \A i \in Points :
            chartData[i].md >= stopDepth =>
                LET near == Near(files.rih.data, chartData[i].md)
                IN IF near # {}
                   THEN \E j \in near : chartData[i].rih_standard_2 = files.rih.data[j].rih
                   ELSE IF Phase1Matched = {}
                   THEN chartData[i].rih_standard_2 = Null
                   ELSE /\ chartData[i].rih_standard_2
                              = chartData[LastOf(Phase1Matched)].rih_standard_1
                        /\ Phase1Known # {} => chartData[i].rih_standard_2 # Null

\* C24: a Phase-1 point has a rih_standard_1 only if the rih file has a sample
\* within 0.5 of its md, and then it is the rih of such a sample; likewise the
\* rih_tractor of a Phase-2 point and the tractor file; with no sample within
\* 0.5 the field is null.
C24ProximityLookup ==
    isStitched =>
        \A i \in Points :
            LET p == chartData[i]
                off == Near(files.rih.data, p.md)
                on == Near(files.tractor.data, p.md)
            IN /\ (p.md < forceDepth /\ p.rih_standard_1 # Null) =>
                     \E j \in off : p.rih_standard_1 = files.rih.data[j].rih
               /\ (p.md < forceDepth /\ off = {}) => p.rih_standard_1 = Null
               /\ (forceDepth <= p.md /\ p.md < stopDepth /\ p.rih_tractor # Null) =>
                     \E j \in on : p.rih_tractor = files.tractor.data[j].rih
               /\ (forceDepth <= p.md /\ p.md < stopDepth /\ on = {}) => p.rih_tractor = Null

\* a stitch with a Phase-1 point that takes the reading of a rih sample 0.25
\* away, a Phase-1 point without a rih sample near it, and a Phase-2 point
\* between two tractor samples that stays without a reading
C24Witness ==
    /\ isStitched
    /\ \E i, j, k \in Points :
          /\ chartData[i].md < forceDepth /\ chartData[i].rih_standard_1 # Null
          /\ chartData[i].md \notin MdSet(files.rih.data)
          /\ chartData[j].md < forceDepth /\ Near(files.rih.data, chartData[j].md) = {}
          /\ forceDepth <= chartData[k].md /\ chartData[k].md < stopDepth
          /\ chartData[k].rih_tractor = Null
          /\ \E a, b \in 1..Len(files.tractor.data) :
                files.tractor.data[a].md < chartData[k].md
                /\ chartData[k].md < files.tractor.data[b].md

\* the (md, pooh) pairs of a series
MdPooh(cd) == [i \in 1..Len(cd) |-> <<cd[i].md, cd[i].pooh>>]

\* C25: for the same files, a stitch with any other tractorDepth and
\* stopTractorDepth gives the same sequence of (md, pooh) pairs.
C25PoohIndependent ==
    isStitched =>
        \A td \in TractorDepths, std \in StopTractorDepths :
            MdPooh(Stitch(files, td, std)) = MdPooh(chartData)

\* a stitch with pooh readings whose RIH fields change with the depths
C25Witness ==
    /\ isStitched
    /\ \E i \in Points : chartData[i].pooh # Null
    /\ \E i \in Points : chartData[i].md >= stopDepth
    /\ \E td \in TractorDepths, std \in StopTractorDepths :
          Stitch(files, td, std) # chartData

\* whether v is the rih of a sample of data at exactly md
ExactRih(data, md, v) == \E j \in 1..Len(data) : data[j].md = md /\ data[j].rih = v

\* C26: a Phase-1 point whose md occurs in the rih file has the rih of the
\* sample at exactly that md as rih_standard_1, and a Phase-2 point whose md
\* occurs in the tractor file has the rih of the tractor sample at exactly that
\* md as rih_tractor.
C26ExactSample ==
    isStitched =>
        \A i \in Points :
            LET p == chartData[i]
            IN /\ (p.md < forceDepth /\ p.md \in MdSet(files.rih.data)) =>
                     ExactRih(files.rih.data, p.md, p.rih_standard_1)
               /\ (forceDepth <= p.md /\ p.md < stopDepth
                     /\ p.md \in MdSet(files.tractor.data)) =>
                     ExactRih(files.tractor.data, p.md, p.rih_tractor)

---------------------------------------------------------------------------
(* Properties of the depth conversion *)

\* C27: surveyMD and surveyTVD have the same length, and getTVD of the md of
\* every station is the tvd of the trajectory point calculateTrajectory made
\* for that station.
C27AlignedArrays ==
    pc = "trajectory" =>
        LET surveyMD == SurveyMD(surveyPoints)
            surveyTVD == SurveyTVD(trajectory)
        IN /\ Len(surveyMD) = Len(surveyTVD)
           /\ \A i \in 1..Len(surveyPoints) :
                 /\ trajectory[i].md = surveyPoints[i].md
                 /\ SameNumber(GetTVD(Frac(surveyPoints[i].md), surveyMD, surveyTVD),
                               Frac(trajectory[i].tvd))

---------------------------------------------------------------------------
(* Properties of the persisted simulations object *)

\* the files of a simulations object, by slot
FilesOf(sims) ==
    [rih |-> sims.fileStandard, tractor |-> sims.fileTractor, pooh |-> sims.filePooh]

\* the onload callback of the read for slot key ran last and r is the one read
\* still in flight, started for another slot while that one was in flight too
SecondOnLoad(key, r) ==
    /\ pending = {r}
    /\ pc = OnLoadOf(key)
    /\ key # r.key
    /\ pending' = {}

\* C28: when two reads for different slots were in flight together and both
\* onload callbacks have run, the files state and the object passed to
\* onUpdate hold the parsed file of the first callback and that of the second
C28BothUploadsKept ==
    [][\A key \in {"rih", "tractor", "pooh"} : \A r \in pending :
          SecondOnLoad(key, r) =>
              /\ files[key].loaded
              /\ files'[key] = files[key]
              /\ files'[r.key] = Loaded(r.parsed)
              /\ FilesOf(simulations')[key] = files[key]
              /\ FilesOf(simulations')[r.key] = Loaded(r.parsed)]_vars

\* C29: a stitched series in the persisted simulations object is the stitch
\* of the files and depths persisted with it
C29PersistedChartCurrent ==
    simulations.chartData.loaded =>
        /\ simulations.fileStandard.loaded
        /\ simulations.fileTractor.loaded
        /\ simulations.chartData.data =
              Stitch(FilesOf(simulations), simulations.tractorDepth,
                     simulations.stopTractorDepth)

---------------------------------------------------------------------------
(* Properties of the saves of the field portal *)

\* every save call issued has written the document
AllSaved == \A i \in 1..Len(saves) : saves[i].stage = "done"

\* save call i is the last one issued for its field
LastIssued(i) == \A j \in (i + 1)..Len(saves) : saves[j].field # saves[i].field

\* C30: once every save call has completed, the persisted run holds the
\* pickupWeights of the last savePickupWeights call issued and the
\* pressureAdjustment of the last savePressureAdjustment call issued
C30NoLostUpdate ==
    AllSaved =>
        \A i \in 1..Len(saves) :
            LastIssued(i) =>
                IF saves[i].field = "pickupWeights"
                THEN wellDoc.pickupWeights = saves[i].weights
                ELSE wellDoc.pressureAdjustment = saves[i].adj

=============================================================================
